---- MODULE Spec2Model ----
(***************************************************************************)
(* Model of the tea app: the server (tea-app/server/auth.ts and the        *)
(* Express server that mounts it) with login, the requireAuth gate, the    *)
(* import endpoint and the CRUD handlers over teas.yaml, and the frontend  *)
(* with the steep timer (TimerContext.tsx), AuthContext.tsx and the axios  *)
(* client.                                                                 *)
(*                                                                         *)
(* teas.yaml can be read and written.  Except in the startup               *)
(* specification the three auth variables are set and the server listens.  *)
(* Requests carry a JSON body unless stated.                               *)
(***************************************************************************)
EXTENDS Integers, Sequences, FiniteSets, TLC

VARIABLES
    clock,      \* Date.now(), counted in ticks of 1/TicksPerSecond second
    issued,     \* the tokens login has handed out so far, each with its time of issue
    file,       \* teas.yaml: whether it exists and the sequence of tea objects in it
    pre,        \* teas.yaml as it was when the last request arrived
    req,        \* the last request
    resp,       \* the response to it
    io,         \* serving the last request: when, the handler run, its reads, writes, fetches
    streak,     \* successful consumption requests on one tea in a row (0..2)
    env,        \* process.env: how the three auth variables are set
    process,    \* the server process: "starting", "listening" or "exited"
    browserInstance,    \* the Puppeteer server: the variable of that name, 0 for null
    browsers,   \* the browsers puppeteer.launch was asked for, in order, and how each one is
    getBrowserCalls,    \* the calls of getBrowser so far: who called, where the call is, what it got
    alive,      \* the service processes that run
    pidFiles,   \* the services whose PID file exists
    pidDir,     \* whether the PID directory exists
    script,     \* shutdown.sh: the command it is at, the PID files it found, the signals it sent
    running,    \* the requests that arrived and whose handler has not finished, numbered
    served,     \* teas.yaml at the start, and the requests whose handler finished, in order
    timeLeft,           \* TimerProvider: seconds left, or null
    activeTeaName,      \* TimerProvider: the tea being steeped, or null
    activeSteepIndex,   \* TimerProvider: the steep being timed, or null
    intervals,  \* the live setInterval timers: for each, the time since it last fired
    audio,      \* the sounds the last step played, and the end sounds since the last start
    call,       \* the last thing that happened to the timer
    localStorage,       \* the browser: the auth_token item, if there is one
    isAuthenticated,    \* AuthProvider: the state of that name
    page,       \* "loading" before AuthProvider has mounted, "reloading" after reload(), else "ready"
    inflight,   \* the frontend client: the statuses of the responses still to arrive
    removed,    \* the tokens the 401 handler removed since the last login
    event       \* the last thing the frontend did, and the item stored before it

puppeteerVars == <<browserInstance, browsers, getBrowserCalls>>
scriptVars == <<alive, pidFiles, pidDir, script>>
loopVars == <<running, served>>
serverVars == <<clock, issued, file, pre, req, resp, io, streak, env, process, puppeteerVars,
                scriptVars, loopVars>>
timerVars == <<timeLeft, activeTeaName, activeSteepIndex, intervals, audio, call>>
authVars == <<localStorage, isAuthenticated, page, inflight, removed, event>>
clientVars == <<timerVars, authVars>>
vars == <<serverVars, clientVars>>

-----------------------------------------------------------------------------
(* Bounds of the model *)

TicksPerSecond == 4  \* resolution of the clock (thirty days of milliseconds exceed 32-bit integers)
MaxSteps == 1        \* clock readings from the start, and again from thirty days later
MaxTokens == 1       \* tokens the client holds at most
MaxTeas == 2         \* teas in teas.yaml at most
MaxTicks == 1        \* last clock reading of the CRUD specification
MaxConsumed == 2     \* consumption requests are served up to this count

-----------------------------------------------------------------------------
(* JavaScript values as they arrive in a JSON body or sit in a tea object *)

Undef == [t |-> "undefined", v |-> 0]
Null == [t |-> "null", v |-> 0]
Str(s) == [t |-> "string", v |-> s]
Num(n) == [t |-> "number", v |-> n]
\* a number that is no integer: n + 1/2
Frac(n) == [t |-> "fraction", v |-> n]
\* x < k and x > k for a number x and an integer k
LessThan(x, k) == x.v < k
GreaterThan(x, k) == IF x.t = "fraction" THEN x.v >= k ELSE x.v > k

\* !value
Falsy(x) ==
    \/ x.t \in {"undefined", "null"}
    \/ x.t = "string" /\ x.v = ""
    \/ x.t = "number" /\ x.v = 0

\* a === b on primitives
StrictEq(a, b) == a.t = b.t /\ a.v = b.v

\* obj.key
Get(obj, key) == IF key \in DOMAIN obj THEN obj[key] ELSE Undef

-----------------------------------------------------------------------------
(* auth.ts *)

ADMIN_USERNAME == "admin"
AdminPassword == "s3cret"
JWT_SECRET == "jwt-secret"
TOKEN_EXPIRY == 30 * 24 * 60 * 60

\* bcrypt: a hash verifies exactly the password it was made from
BcryptHash(password) == [alg |-> "bcrypt", of |-> password]
ADMIN_PASSWORD_HASH == BcryptHash(AdminPassword)

\* process.env of a server that is configured: the three variables hold the
\* values above
AuthVariables == <<"ADMIN_USERNAME", "ADMIN_PASSWORD_HASH", "JWT_SECRET">>
Configured == [name \in {AuthVariables[i] : i \in DOMAIN AuthVariables} |-> "set"]

\* getAuthConfig, lines 12-18: the names pushed to `missing` (!value holds for
\* a variable that is unset and for one set to the empty string)
RECURSIVE MissingFrom(_, _)
MissingFrom(environment, i) ==
    IF i > Len(AuthVariables) THEN <<>>
    ELSE (IF environment[AuthVariables[i]] \in {"unset", "empty"}
          THEN <<AuthVariables[i]>> ELSE <<>>) \o MissingFrom(environment, i + 1)

\* a validation that logs the error and goes on
validateAuthConfigLogging(environment) == "returns"

\* validateAuthConfig: process.exit(1) when getAuthConfig throws
validateAuthConfig(environment) ==
    IF MissingFrom(environment, 1) # <<>> THEN "exit(1)" ELSE "returns"

\* getAuthConfig when nothing is missing
getAuthConfig ==
    [username |-> ADMIN_USERNAME, passwordHash |-> ADMIN_PASSWORD_HASH,
     jwtSecret |-> JWT_SECRET]

\* bcrypt.compare(data, hash): rejects unless data is a string
bcryptCompare(data, hash) ==
    IF data.t # "string" THEN "throws"
    ELSE IF hash = BcryptHash(data.v) THEN "true" ELSE "false"

\* Math.floor(Date.now() / 1000): seconds, as jsonwebtoken reads the clock
ClockTimestamp(now) == now \div TicksPerSecond

\* the HMAC of a payload under a key
Signature(payload, key) == [key |-> key, over |-> payload]

\* jwt.sign(payload, secret, { expiresIn })
jwtSign(username, secret, expiresIn, now) ==
    LET payload == [username |-> username, iat |-> ClockTimestamp(now),
                    exp |-> ClockTimestamp(now) + expiresIn]
    IN  [wellFormed |-> TRUE, payload |-> payload, sig |-> Signature(payload, secret)]

\* jwt.verify with the expiry compared by > : the second `exp` itself still passes
jwtVerifyLate(token, secret, now) ==
    IF ~token.wellFormed THEN "JsonWebTokenError"
    ELSE IF token.sig # Signature(token.payload, secret) THEN "JsonWebTokenError"
    ELSE IF ClockTimestamp(now) > token.payload.exp THEN "TokenExpiredError"
    ELSE "ok"

\* jwt.verify(token, secret): the signature first, then the expiry
jwtVerify(token, secret, now) ==
    IF ~token.wellFormed THEN "JsonWebTokenError"
    ELSE IF token.sig # Signature(token.payload, secret) THEN "JsonWebTokenError"
    ELSE IF ClockTimestamp(now) >= token.payload.exp THEN "TokenExpiredError"
    ELSE "ok"

\* A response: its status, the error message of its body and, on success, the
\* token or the tea its body carries (sets of at most one element)
Reply(status, error) == [status |-> status, error |-> error, token |-> {}, tea |-> {}]

\* login: the response to POST /api/auth/login with req.body = body
login(body, now) ==
    LET username == Get(body, "username")
        password == Get(body, "password")
        config == getAuthConfig
    IN  IF Falsy(username) \/ Falsy(password)
        THEN Reply(400, "Username and password are required")
        ELSE IF ~StrictEq(username, Str(config.username))
        THEN Reply(401, "Invalid username or password")
        ELSE LET passwordValid == bcryptCompare(password, config.passwordHash)
             IN  IF passwordValid = "throws" THEN Reply(500, "Internal server error")
                 ELSE IF passwordValid = "false"
                 THEN Reply(401, "Invalid username or password")
                 ELSE [Reply(200, "") EXCEPT
                        !.token = {jwtSign(config.username, config.jwtSecret, TOKEN_EXPIRY, now)}]

\* An Authorization header: absent, or a prefix followed by a credential
Garbage == [wellFormed |-> FALSE, payload |-> [username |-> "", iat |-> 0, exp |-> 0],
            sig |-> Signature([username |-> "", iat |-> 0, exp |-> 0], "")]
NoHeader == [present |-> FALSE, prefix |-> "", cred |-> Garbage]
Header(prefix, cred) == [present |-> TRUE, prefix |-> prefix, cred |-> cred]

\* requireAuth without the TokenExpiredError branch: an expired token passes
requireAuthIgnoringExpiry(authHeader, now) ==
    IF ~authHeader.present \/ authHeader.prefix # "Bearer "
    THEN Reply(401, "Authorization token required")
    ELSE LET verdict == jwtVerify(authHeader.cred, getAuthConfig.jwtSecret, now)
         IN  IF verdict = "JsonWebTokenError" THEN Reply(401, "Invalid token")
             ELSE Reply(0, "next")

\* requireAuth: "next" when the request may pass, else the response it sends
requireAuth(authHeader, now) ==
    IF ~authHeader.present \/ authHeader.prefix # "Bearer "
    THEN Reply(401, "Authorization token required")
    ELSE LET verdict == jwtVerify(authHeader.cred, getAuthConfig.jwtSecret, now)
         IN  IF verdict = "TokenExpiredError" THEN Reply(401, "Token expired")
             ELSE IF verdict = "JsonWebTokenError" THEN Reply(401, "Invalid token")
             ELSE Reply(0, "next")

-----------------------------------------------------------------------------
(* shared/types.ts: the schemas *)

Arr(seq) == [t |-> "array", v |-> seq]

\* the members of TEA_TYPES, as normalizeTeaType names them
TEA_TYPES == {"Green", "Black", "PuEr", "Yellow", "White", "Oolong"}
CAFFEINE_LEVELS == {"Low", "Medium", "High"}

IsString(x) == x.t = "string"
IsNumber(x) == x.t \in {"number", "fraction"}
IsEnum(x, members) == x.t = "string" /\ x.v \in members
IsNumberArray(x) == x.t = "array" /\ \A i \in DOMAIN x.v : IsNumber(x.v[i])
\* z.number().min(1).max(10).nullable().optional()
IsRating(x) ==
    x.t \in {"undefined", "null"} \/ (IsNumber(x) /\ ~LessThan(x, 1) /\ ~GreaterThan(x, 10))
\* z.number().int().min(0), undefined allowed where a default stands in
IsCount(x) == x.t = "undefined" \/ (x.t = "number" /\ ~LessThan(x, 0))
\* z.number().nullable(), undefined allowed where a default stands in
IsDate(x) == x.t \in {"undefined", "null"} \/ IsNumber(x)

OrDefault(x, default) == IF x.t = "undefined" THEN default ELSE x

\* the keys of a parsed object: those of the shape, an optional one only when set
Parsed(obj, shape) ==
    [k \in {key \in DOMAIN shape : shape[key].t # "undefined"} |-> shape[k]]

\* TeaSchema.safeParse(obj).success
TeaSchemaOk(obj) ==
    /\ IsString(Get(obj, "id"))
    /\ IsString(Get(obj, "name"))
    /\ IsEnum(Get(obj, "type"), TEA_TYPES)
    /\ IsString(Get(obj, "image"))
    /\ IsNumberArray(Get(obj, "steepTimes"))
    /\ IsString(Get(obj, "caffeine"))
    /\ IsEnum(Get(obj, "caffeineLevel"), CAFFEINE_LEVELS)
    /\ IsString(Get(obj, "website"))
    /\ IsString(Get(obj, "brewingTemperature"))
    /\ IsString(Get(obj, "teaWeight"))
    /\ IsRating(Get(obj, "rating"))
    /\ IsCount(Get(obj, "timesConsumed"))
    /\ IsDate(Get(obj, "lastConsumedDate"))

\* TeaSchema.parse(obj), for an obj that passes: unknown keys are dropped and
\* the defaults filled in
TeaSchemaParse(obj) ==
    Parsed(obj,
        [id |-> Get(obj, "id"), name |-> Get(obj, "name"), type |-> Get(obj, "type"),
         image |-> Get(obj, "image"), steepTimes |-> Get(obj, "steepTimes"),
         caffeine |-> Get(obj, "caffeine"), caffeineLevel |-> Get(obj, "caffeineLevel"),
         website |-> Get(obj, "website"),
         brewingTemperature |-> Get(obj, "brewingTemperature"),
         teaWeight |-> Get(obj, "teaWeight"), rating |-> Get(obj, "rating"),
         timesConsumed |-> OrDefault(Get(obj, "timesConsumed"), Num(0)),
         lastConsumedDate |-> OrDefault(Get(obj, "lastConsumedDate"), Null)])

IsOptional(x, Check(_)) == x.t = "undefined" \/ Check(x)
IsCaffeineLevel(x) == IsEnum(x, CAFFEINE_LEVELS)

\* CreateTeaSchema.safeParse(obj).success
CreateTeaSchemaOk(obj) ==
    /\ IsString(Get(obj, "name"))
    /\ IsEnum(Get(obj, "type"), TEA_TYPES)
    /\ IsString(Get(obj, "image"))
    /\ IsNumberArray(Get(obj, "steepTimes"))
    /\ IsOptional(Get(obj, "caffeine"), IsString)
    /\ IsOptional(Get(obj, "caffeineLevel"), IsCaffeineLevel)
    /\ IsOptional(Get(obj, "website"), IsString)
    /\ IsOptional(Get(obj, "brewingTemperature"), IsString)
    /\ IsOptional(Get(obj, "teaWeight"), IsString)
    /\ IsRating(Get(obj, "rating"))
    /\ IsCount(Get(obj, "timesConsumed"))
    /\ IsDate(Get(obj, "lastConsumedDate"))

\* CreateTeaSchema.parse(obj), for an obj that passes
CreateTeaSchemaParse(obj) ==
    Parsed(obj,
        [name |-> Get(obj, "name"), type |-> Get(obj, "type"),
         image |-> Get(obj, "image"), steepTimes |-> Get(obj, "steepTimes"),
         caffeine |-> OrDefault(Get(obj, "caffeine"), Str("")),
         caffeineLevel |-> OrDefault(Get(obj, "caffeineLevel"), Str("Low")),
         website |-> OrDefault(Get(obj, "website"), Str("")),
         brewingTemperature |-> OrDefault(Get(obj, "brewingTemperature"), Str("")),
         teaWeight |-> OrDefault(Get(obj, "teaWeight"), Str("")),
         rating |-> Get(obj, "rating"),
         timesConsumed |-> OrDefault(Get(obj, "timesConsumed"), Num(0)),
         lastConsumedDate |-> OrDefault(Get(obj, "lastConsumedDate"), Null)])

\* { ...a, ...b }
Spread(a, b) == [k \in DOMAIN a \cup DOMAIN b |-> IF k \in DOMAIN b THEN b[k] ELSE a[k]]

-----------------------------------------------------------------------------
(* The YAML store *)

NoFile == [exists |-> FALSE, data |-> <<>>]

\* readTeas(): the validated collection, or a failure when the file does not
\* hold an array of TeaSchema records
readTeas(f) ==
    IF ~f.exists THEN [ok |-> TRUE, teas |-> <<>>]
    ELSE IF \A i \in 1..Len(f.data) : TeaSchemaOk(f.data[i])
    THEN [ok |-> TRUE, teas |-> [i \in 1..Len(f.data) |-> TeaSchemaParse(f.data[i])]]
    ELSE [ok |-> FALSE, teas |-> <<>>]

MaxNumeral == 999   \* the strings of digits read up to this number

\* the strings that a plain YAML scalar does not read as: numbers, null and
\* the booleans
Numerals == {ToString(n) : n \in 0..MaxNumeral}
Implicit(s) == s \in Numerals \cup {"", "~", "null", "true", "false"}

\* a dump that quotes nothing
yamlDumpPlain(x) == [plain |-> TRUE, v |-> x]

\* yaml.dump of a value of a tea: a string is quoted when its text would
\* read as something else
yamlDump(x) == [plain |-> ~(x.t = "string" /\ Implicit(x.v)), v |-> x]

\* yaml.load of it: a plain scalar is what its text reads as
yamlLoad(node) ==
    IF ~(node.plain /\ node.v.t = "string" /\ Implicit(node.v.v)) THEN node.v
    ELSE IF node.v.v \in Numerals
    THEN Num(CHOOSE n \in 0..MaxNumeral : ToString(n) = node.v.v)
    ELSE IF node.v.v \in {"true", "false"} THEN [t |-> "boolean", v |-> 0]
    ELSE Null

\* writeTeas(teas): the file after yaml.dump and writeFileSync, as yaml.load
\* reads it
writeTeas(list) ==
    [exists |-> TRUE,
     data |-> [i \in 1..Len(list) |->
                 [k \in DOMAIN list[i] |-> yamlLoad(yamlDump(list[i][k]))]]]

\* String.prototype.toLowerCase().trim() on the spellings of a tea type
LowerTrim(s) ==
    CASE s \in {"green", "Green", " GREEN "} -> "green"
      [] s \in {"black", "Black"} -> "black"
      [] s \in {"puer", "PuEr", "PUER"} -> "puer"
      [] s \in {"pu-er", "Pu-Er"} -> "pu-er"
      [] s \in {"pu-erh", "Pu-Erh"} -> "pu-erh"
      [] s \in {"yellow", "Yellow"} -> "yellow"
      [] s \in {"white", "White"} -> "white"
      [] s \in {"oolong", "Oolong", "OOLONG "} -> "oolong"
      [] s \in {"herbal", "Herbal"} -> "herbal"
      [] OTHER -> s

\* normalizeTeaType(type), for a string
normalizeTeaType(type) ==
    LET normalized == LowerTrim(type)
    IN  CASE normalized = "green" -> "Green"
          [] normalized = "black" -> "Black"
          [] normalized \in {"puer", "pu-er", "pu-erh"} -> "PuEr"
          [] normalized = "yellow" -> "Yellow"
          [] normalized = "white" -> "White"
          [] normalized = "oolong" -> "Oolong"
          [] OTHER -> type

-----------------------------------------------------------------------------
(* The route handlers: what each does to teas.yaml and what it answers *)

\* A request body: absent, or a JSON object
EmptyObj == [k \in {} |-> Undef]
NoBody == [present |-> FALSE, obj |-> EmptyObj]
Body(obj) == [present |-> TRUE, obj |-> obj]

Out(response, f, handler, reads, writes) ==
    [resp |-> response, file |-> f, handler |-> handler, reads |-> reads,
     writes |-> writes, fetch |-> {}]

WithTea(response, tea) == [response EXCEPT !.tea = {tea}]

\* teas.findIndex(t => t.id === id), counted from 1; 0 when there is none
FindIndex(list, id) ==
    LET hits == {i \in 1..Len(list) : StrictEq(Get(list[i], "id"), Str(id))}
    IN  IF hits = {} THEN 0 ELSE CHOOSE i \in hits : \A j \in hits : i <= j

\* a filter that drops the first match only
WithoutFirst(list, id) ==
    LET hits == {i \in 1..Len(list) : StrictEq(Get(list[i], "id"), Str(id))}
    IN  IF hits = {} THEN list
        ELSE LET first == CHOOSE i \in hits : \A j \in hits : i <= j
             IN  SubSeq(list, 1, first - 1) \o SubSeq(list, first + 1, Len(list))

\* teas.filter(t => t.id !== id)
RECURSIVE Without(_, _)
Without(list, id) ==
    IF list = <<>> THEN <<>>
    ELSE IF StrictEq(Get(Head(list), "id"), Str(id)) THEN Without(Tail(list), id)
    ELSE <<Head(list)>> \o Without(Tail(list), id)

\* app.get('/api/teas')
getTeas(f) ==
    LET read == readTeas(f)
    IN  IF ~read.ok THEN Out(Reply(500, "Failed to read tea collection"), f, "GET /api/teas", 1, 0)
        ELSE Out(Reply(200, ""), f, "GET /api/teas", 1, 0)

\* value ?? fallback
Coalesce(x, fallback) == IF x.t \in {"undefined", "null"} THEN fallback ELSE x

\* the creation handler saving the new tea alone instead of the extended list
postTeaOverwriting(body, f, now) ==
    LET h == "POST /api/teas"
        read == readTeas(f)
        type == Get(body.obj, "type")
        normalizedData == Spread(body.obj, [type |-> Str(normalizeTeaType(type.v))])
        createTeaData == CreateTeaSchemaParse(normalizedData)
        newTeaData == Spread(createTeaData,
                        [timesConsumed |-> Coalesce(Get(createTeaData, "timesConsumed"), Num(0)),
                         lastConsumedDate |-> Coalesce(Get(createTeaData, "lastConsumedDate"), Null)])
        newTea == Spread(newTeaData, [id |-> Str(ToString(now))])
    IN  IF ~body.present THEN Out(Reply(400, "Request body is required"), f, h, 0, 0)
        ELSE IF ~read.ok
        THEN Out(Reply(500, "Failed to read existing tea collection"), f, h, 1, 0)
        ELSE IF type.t # "string"
        THEN Out(Reply(500, "An unexpected error occurred while saving tea"), f, h, 1, 0)
        ELSE IF ~CreateTeaSchemaOk(normalizedData)
        THEN Out(Reply(400, "Invalid tea data"), f, h, 1, 0)
        ELSE Out(WithTea(Reply(201, ""), newTea), writeTeas(<<newTea>>), h, 1, 1)

\* app.post('/api/teas')
postTea(body, f, now) ==
    LET h == "POST /api/teas"
        read == readTeas(f)
        type == Get(body.obj, "type")
        normalizedData == Spread(body.obj, [type |-> Str(normalizeTeaType(type.v))])
        createTeaData == CreateTeaSchemaParse(normalizedData)
        newTeaData == Spread(createTeaData,
                        [timesConsumed |-> Coalesce(Get(createTeaData, "timesConsumed"), Num(0)),
                         lastConsumedDate |-> Coalesce(Get(createTeaData, "lastConsumedDate"), Null)])
        newTea == Spread(newTeaData, [id |-> Str(ToString(now))])
        list == Append(read.teas, newTea)
    IN  IF ~body.present THEN Out(Reply(400, "Request body is required"), f, h, 0, 0)
        ELSE IF ~read.ok
        THEN Out(Reply(500, "Failed to read existing tea collection"), f, h, 1, 0)
        ELSE IF type.t # "string"  \* type.toLowerCase() throws
        THEN Out(Reply(500, "An unexpected error occurred while saving tea"), f, h, 1, 0)
        ELSE IF ~CreateTeaSchemaOk(normalizedData)
        THEN Out(Reply(400, "Invalid tea data"), f, h, 1, 0)
        ELSE Out(WithTea(Reply(201, ""), newTea), writeTeas(list), h, 1, 1)

\* app.get('/api/teas/export')
exportTeas(f) ==
    IF ~f.exists THEN Out(Reply(404, "Tea data file not found"), f, "GET /api/teas/export", 0, 0)
    ELSE Out(Reply(200, ""), f, "GET /api/teas/export", 1, 0)

\* the delete handler without the lookup: it filters and saves whatever the id
deleteTeaUnchecked(teaId, f) ==
    LET h == "DELETE /api/teas/:id"
        read == readTeas(f)
    IN  IF teaId = "" THEN Out(Reply(400, "Tea ID is required"), f, h, 0, 0)
        ELSE IF ~read.ok THEN Out(Reply(500, "Failed to read tea collection"), f, h, 1, 0)
        ELSE Out(Reply(204, ""), writeTeas(Without(read.teas, teaId)), h, 1, 1)

\* the delete handler dropping one tea: the first of that id
deleteTeaFirst(teaId, f) ==
    LET h == "DELETE /api/teas/:id"
        read == readTeas(f)
    IN  IF teaId = "" THEN Out(Reply(400, "Tea ID is required"), f, h, 0, 0)
        ELSE IF ~read.ok THEN Out(Reply(500, "Failed to read tea collection"), f, h, 1, 0)
        ELSE IF FindIndex(read.teas, teaId) = 0 THEN Out(Reply(404, "Tea not found"), f, h, 1, 0)
        ELSE Out(Reply(204, ""), writeTeas(WithoutFirst(read.teas, teaId)), h, 1, 1)

\* app.delete('/api/teas/:id')
deleteTea(teaId, f) ==
    LET h == "DELETE /api/teas/:id"
        read == readTeas(f)
    IN  IF teaId = "" THEN Out(Reply(400, "Tea ID is required"), f, h, 0, 0)
        ELSE IF ~read.ok THEN Out(Reply(500, "Failed to read tea collection"), f, h, 1, 0)
        ELSE IF FindIndex(read.teas, teaId) = 0 THEN Out(Reply(404, "Tea not found"), f, h, 1, 0)
        ELSE Out(Reply(204, ""), writeTeas(Without(read.teas, teaId)), h, 1, 1)

\* app.patch('/api/test-patch')
testPatch(f) == Out(Reply(200, ""), f, "PATCH /api/test-patch", 0, 0)

\* app.patch('/api/teas/:id')
patchTea(id, body, f) ==
    LET h == "PATCH /api/teas/:id"
        read == readTeas(f)
        teaIndex == FindIndex(read.teas, id)
        rating == Get(body.obj, "rating")
        updatedTea == Spread(read.teas[teaIndex], body.obj)
        validatedTea == TeaSchemaParse(updatedTea)
    IN  IF id = "" THEN Out(Reply(400, "Tea ID is required"), f, h, 0, 0)
        ELSE IF ~body.present \/ DOMAIN body.obj = {}
        THEN Out(Reply(400, "Request body is required with at least one field to update"),
                 f, h, 0, 0)
        ELSE IF ~read.ok THEN Out(Reply(500, "Failed to read tea collection"), f, h, 1, 0)
        ELSE IF teaIndex = 0 THEN Out(Reply(404, "Tea not found"), f, h, 1, 0)
        ELSE IF "rating" \in DOMAIN body.obj /\ rating.t \notin {"null", "undefined"}
                /\ (~IsNumber(rating) \/ LessThan(rating, 1) \/ GreaterThan(rating, 10))
        THEN Out(Reply(400, "Invalid rating value"), f, h, 1, 0)
        ELSE IF ~TeaSchemaOk(updatedTea) THEN Out(Reply(400, "Invalid tea data"), f, h, 1, 0)
        ELSE Out(WithTea(Reply(200, ""), validatedTea),
                 writeTeas([read.teas EXCEPT ![teaIndex] = validatedTea]), h, 1, 1)

\* existingTea.timesConsumed || 1
OrOne(x) == IF Falsy(x) THEN 1 ELSE x.v

\* existingTea.timesConsumed || 0
OrZero(x) == IF Falsy(x) THEN 0 ELSE x.v

\* the consumption handler made idempotent: it counts a tea once and from then
\* on only refreshes the date
consumeTeaOnce(id, f, now) ==
    LET h == "PUT /api/teas/:id/lastConsumed"
        read == readTeas(f)
        teaIndex == FindIndex(read.teas, id)
        existingTea == read.teas[teaIndex]
        count == OrZero(Get(existingTea, "timesConsumed"))
        updatedTea == Spread(existingTea,
                             [timesConsumed |-> Num(IF count = 0 THEN 1 ELSE count),
                              lastConsumedDate |-> Num(now)])
        validatedTea == TeaSchemaParse(updatedTea)
    IN  IF id = "" THEN Out(Reply(400, "Tea ID is required"), f, h, 0, 0)
        ELSE IF ~read.ok THEN Out(Reply(500, "Failed to read tea collection"), f, h, 1, 0)
        ELSE IF teaIndex = 0 THEN Out(Reply(404, "Tea not found"), f, h, 1, 0)
        ELSE IF ~TeaSchemaOk(updatedTea) THEN Out(Reply(400, "Invalid tea data"), f, h, 1, 0)
        ELSE Out(WithTea(Reply(200, ""), validatedTea),
                 writeTeas([read.teas EXCEPT ![teaIndex] = validatedTea]), h, 1, 1)

\* app.put('/api/teas/:id/lastConsumed')
consumeTea(id, f, now) ==
    LET h == "PUT /api/teas/:id/lastConsumed"
        read == readTeas(f)
        teaIndex == FindIndex(read.teas, id)
        existingTea == read.teas[teaIndex]
        updatedTea == Spread(existingTea,
                             [timesConsumed |-> Num(OrZero(Get(existingTea, "timesConsumed")) + 1),
                              lastConsumedDate |-> Num(now)])
        validatedTea == TeaSchemaParse(updatedTea)
    IN  IF id = "" THEN Out(Reply(400, "Tea ID is required"), f, h, 0, 0)
        ELSE IF ~read.ok THEN Out(Reply(500, "Failed to read tea collection"), f, h, 1, 0)
        ELSE IF teaIndex = 0 THEN Out(Reply(404, "Tea not found"), f, h, 1, 0)
        ELSE IF ~TeaSchemaOk(updatedTea) THEN Out(Reply(400, "Invalid tea data"), f, h, 1, 0)
        ELSE Out(WithTea(Reply(200, ""), validatedTea),
                 writeTeas([read.teas EXCEPT ![teaIndex] = validatedTea]), h, 1, 1)

\* a path under /api that no route matches: Express answers 404 itself
noRoute(f) == Out(Reply(404, "Cannot find route"), f, "finalhandler", 0, 0)

-----------------------------------------------------------------------------
(* The SSRF guard of the import endpoint.  A URL string is described by its *)
(* syntax: empty, only spaces, without a scheme, or scheme://host/...  with *)
(* the host written as an IPv6 literal in brackets (its eight pieces), as   *)
(* IPv4 numbers separated by dots (one to four parts, the last filling the  *)
(* remaining bytes), or as a name.  Host names are sequences of characters. *)

UpperCase == <<"A", "B", "C", "D", "E", "F", "G", "H", "I", "J", "K", "L", "M", "N", "O", "P", "Q", "R", "S", "T", "U", "V", "W", "X", "Y", "Z">>
LowerCase == <<"a", "b", "c", "d", "e", "f", "g", "h", "i", "j", "k", "l", "m", "n", "o", "p", "q", "r", "s", "t", "u", "v", "w", "x", "y", "z">>
DecDigits == <<"0", "1", "2", "3", "4", "5", "6", "7", "8", "9">>
HexDigits == <<"0", "1", "2", "3", "4", "5", "6", "7", "8", "9", "a", "b", "c", "d", "e", "f">>

\* one character of String.prototype.toLowerCase()
ToLower(c) ==
    IF \E i \in 1..Len(UpperCase) : UpperCase[i] = c
    THEN LowerCase[CHOOSE i \in 1..Len(UpperCase) : UpperCase[i] = c]
    ELSE c

\* a number written in a base, as the URL serializer writes it
RECURSIVE Numeral(_, _)
Numeral(n, digits) ==
    IF n < Len(digits) THEN <<digits[n + 1]>>
    ELSE Numeral(n \div Len(digits), digits) \o <<digits[(n % Len(digits)) + 1]>>

\* str.startsWith(prefix)
StartsWith(str, prefix) ==
    Len(str) >= Len(prefix) /\ SubSeq(str, 1, Len(prefix)) = prefix

Ipv6Host(pieces) == [form |-> "ipv6", parts |-> pieces, chars |-> <<>>]
Ipv4Host(parts) == [form |-> "ipv4", parts |-> parts, chars |-> <<>>]
NameHost(chars) == [form |-> "name", parts |-> <<>>, chars |-> chars]
EmptyHost == [form |-> "empty", parts |-> <<>>, chars |-> <<>>]

RECURSIVE Power(_, _)
Power(b, e) == IF e = 0 THEN 1 ELSE b * Power(b, e - 1)

\* the IPv4 parser: every part but the last is one byte, the last fills the
\* bytes that remain
Ipv4PartsOk(parts) ==
    /\ Len(parts) \in 1..4
    /\ \A i \in 1..(Len(parts) - 1) : parts[i] <= 255
    /\ parts[Len(parts)] \div Power(256, 4 - Len(parts)) <= 255

\* the four bytes of the address
Ipv4Bytes(parts) ==
    [i \in 1..4 |->
        IF i < Len(parts) THEN parts[i]
        ELSE (parts[Len(parts)] \div Power(256, 4 - i)) % 256]

\* the IPv4 serializer: four decimal numbers separated by dots
Ipv4Serialize(bytes) ==
    Numeral(bytes[1], DecDigits) \o <<".">> \o Numeral(bytes[2], DecDigits) \o <<".">>
        \o Numeral(bytes[3], DecDigits) \o <<".">> \o Numeral(bytes[4], DecDigits)

\* the length of the run of zero pieces that starts at piece i
RECURSIVE ZeroRun(_, _)
ZeroRun(pieces, i) ==
    IF i > Len(pieces) \/ pieces[i] # 0 THEN 0 ELSE 1 + ZeroRun(pieces, i + 1)

\* where the serializer compresses: the first longest run of two or more zero
\* pieces; 0 when there is none
CompressAt(pieces) ==
    LET starts == {i \in 1..Len(pieces) :
                      /\ ZeroRun(pieces, i) >= 2
                      /\ \A j \in 1..Len(pieces) : ZeroRun(pieces, j) <= ZeroRun(pieces, i)}
    IN  IF starts = {} THEN 0 ELSE CHOOSE i \in starts : \A j \in starts : i <= j

\* the IPv6 serializer, from piece i on
RECURSIVE Ipv6Serialize(_, _, _, _)
Ipv6Serialize(pieces, i, compress, ignore0) ==
    IF i > Len(pieces) THEN <<>>
    ELSE IF ignore0 /\ pieces[i] = 0 THEN Ipv6Serialize(pieces, i + 1, compress, TRUE)
    ELSE IF compress = i
    THEN (IF i = 1 THEN <<":", ":">> ELSE <<":">>)
            \o Ipv6Serialize(pieces, i + 1, compress, TRUE)
    ELSE Numeral(pieces[i], HexDigits) \o (IF i # Len(pieces) THEN <<":">> ELSE <<>>)
            \o Ipv6Serialize(pieces, i + 1, compress, FALSE)

ForbiddenHostChars == {" ", "#", "/", "<", ">", "?", "@", "[", "\\", "]", "^", "|"}

\* the host parser and serializer: what URL.hostname holds for a host, or a
\* failure
ParseHost(host) ==
    CASE host.form = "ipv6" ->
            [ok |-> TRUE,
             hostname |-> <<"[">> \o Ipv6Serialize(host.parts, 1, CompressAt(host.parts), FALSE)
                            \o <<"]">>]
      [] host.form = "ipv4" ->
            IF Ipv4PartsOk(host.parts)
            THEN [ok |-> TRUE, hostname |-> Ipv4Serialize(Ipv4Bytes(host.parts))]
            ELSE [ok |-> FALSE, hostname |-> <<>>]
      [] host.form = "name" ->
            IF \E i \in 1..Len(host.chars) : host.chars[i] \in ForbiddenHostChars
            THEN [ok |-> FALSE, hostname |-> <<>>]
            ELSE [ok |-> TRUE, hostname |-> [i \in 1..Len(host.chars) |-> ToLower(host.chars[i])]]
      [] OTHER -> [ok |-> FALSE, hostname |-> <<>>]

EmptyText == [kind |-> "empty", scheme |-> "", host |-> EmptyHost]
SpacesText == [kind |-> "spaces", scheme |-> "", host |-> EmptyHost]
RelativeText == [kind |-> "relative", scheme |-> "", host |-> EmptyHost]
AbsoluteText(scheme, host) == [kind |-> "absolute", scheme |-> scheme, host |-> host]

\* the scheme as the parser lowercases it
LowerScheme(scheme) ==
    CASE scheme \in {"http", "HTTP", "Http"} -> "http"
      [] scheme \in {"https", "HTTPS"} -> "https"
      [] scheme \in {"ftp", "FTP"} -> "ftp"
      [] OTHER -> scheme

\* schemes whose URLs have a host that the host parser reads
SpecialSchemes == {"http", "https", "ftp", "ws", "wss"}

\* new URL(text): the protocol and hostname of the parsed URL, or a failure
ParseURL(text) ==
    LET scheme == LowerScheme(text.scheme)
        host == ParseHost(text.host)
    IN  IF text.kind # "absolute" THEN [ok |-> FALSE, protocol |-> "", hostname |-> <<>>]
        ELSE IF scheme \notin SpecialSchemes
        THEN [ok |-> TRUE, protocol |-> scheme \o ":", hostname |-> <<>>]
        ELSE IF ~host.ok THEN [ok |-> FALSE, protocol |-> "", hostname |-> <<>>]
        ELSE [ok |-> TRUE, protocol |-> scheme \o ":", hostname |-> host.hostname]

LocalhostChars == <<"l", "o", "c", "a", "l", "h", "o", "s", "t">>
LocalhostLocaldomainChars == <<"l", "o", "c", "a", "l", "h", "o", "s", "t", ".", "l", "o", "c", "a", "l", "d", "o", "m", "a", "i", "n">>

IsDecDigit(c) == \E i \in 1..Len(DecDigits) : DecDigits[i] = c

\* the 172.x test without the 172.30 and 172.31 branch
Matches172Short(hostname) ==
    /\ StartsWith(hostname, <<"1", "7", "2", ".">>)
    /\ Len(hostname) >= 7
    /\ \/ hostname[5] = "1" /\ hostname[6] \in {"6", "7", "8", "9"}
       \/ hostname[5] = "2" /\ IsDecDigit(hostname[6])
    /\ hostname[7] = "."

\* /^172\.(1[6-9]|2[0-9]|3[01])\./.test(hostname)
Matches172(hostname) ==
    /\ StartsWith(hostname, <<"1", "7", "2", ".">>)
    /\ Len(hostname) >= 7
    /\ \/ hostname[5] = "1" /\ hostname[6] \in {"6", "7", "8", "9"}
       \/ hostname[5] = "2" /\ IsDecDigit(hostname[6])
       \/ hostname[5] = "3" /\ hostname[6] \in {"0", "1"}
    /\ hostname[7] = "."

\* isPrivateIP(hostname)
isPrivateIP(hostname) ==
    \/ hostname = LocalhostChars \/ hostname = LocalhostLocaldomainChars
    \/ StartsWith(hostname, <<"1", "2", "7", ".">>)
    \/ StartsWith(hostname, <<"1", "0", ".">>)
    \/ Matches172(hostname)
    \/ StartsWith(hostname, <<"1", "9", "2", ".", "1", "6", "8", ".">>)
    \/ StartsWith(hostname, <<"1", "6", "9", ".", "2", "5", "4", ".">>)
    \/ hostname = <<":", ":", "1">> \/ hostname = <<":", ":">>
    \/ StartsWith(hostname, <<"f", "c">>) \/ StartsWith(hostname, <<"f", "d">>)

Verdict(valid, error) == [valid |-> valid, error |-> error]

\* validateURLForSSRF(url)
validateURLForSSRF(url) ==
    LET parsed == ParseURL(url.v)
    IN  \* !url || typeof url !== 'string' || url.trim() === ''
        IF url.t # "string" \/ url.v.kind = "empty" \/ url.v.kind = "spaces"
        THEN Verdict(FALSE, "URL cannot be empty")
        ELSE IF ~parsed.ok THEN Verdict(FALSE, "Invalid URL format")
        ELSE IF parsed.protocol \notin {"http:", "https:"}
        THEN Verdict(FALSE, "Only HTTP/HTTPS URLs are allowed")
        ELSE IF parsed.hostname = <<>>
        THEN Verdict(FALSE, "Invalid URL format: missing hostname")
        ELSE IF isPrivateIP(parsed.hostname)
        THEN Verdict(FALSE, "Cannot scrape private/local URLs")
        ELSE Verdict(TRUE, "")

\* app.post('/api/teas/import'): the guard, then the outbound request, which
\* the vendor's server answers or not
\* The page axios.get returns, as the selectors of the handler see it: the
\* text of the first h1, the words the containers of the 'Categories' titles
\* and the body text include, the caffeine text the patterns find, and the
\* .product-description-title elements, each with the siblings that follow it.
\* The text of a table cell is a sequence of tokens: numbers, words, commas
\* and line breaks; the caffeine text is one too, with percent signs and
\* decimal points, and white space around its words.
Digits(n) == [k |-> "number", n |-> n, w |-> ""]
Word(w) == [k |-> "word", n |-> 0, w |-> w]
Comma == [k |-> "comma", n |-> 0, w |-> ","]
LineBreak == [k |-> "break", n |-> 0, w |-> ""]
Percent == [k |-> "percent", n |-> 0, w |-> "%"]
Point == [k |-> "point", n |-> 0, w |-> "."]

Paragraph == [table |-> FALSE, cells |-> <<>>]
Table(cells) == [table |-> TRUE, cells |-> cells]
\* the caffeine text the patterns find: the string, and its tokens
Caffeine(text, tokens) == [text |-> text, tokens |-> tokens]
NoCaffeine == Caffeine("", <<>>)
BlankPage == [name |-> "", categories |-> <<>>, body |-> {}, caffeine |-> NoCaffeine,
              titles |-> <<>>]

\* what the fetch of a request yields: a page, or an error (also the value of
\* a request that fetches nothing)
NoPage == [ok |-> FALSE, data |-> BlankPage]
Fetched(html) == [ok |-> TRUE, data |-> html]

\* name.includes(word), for the names the pages carry
NameIncludes(name) ==
    CASE name = "Dragon Well Green Tea" -> {"Green"}
      [] name = "Ripened pu-er Cake" -> {"pu", "pu-er"}
      [] name = "Black Oolong" -> {"Black", "Oolong"}
      [] OTHER -> {}

validTypes == <<"Green", "Black", "PuEr", "Yellow", "White", "Oolong">>

\* validTypes.forEach(t => { if (containerText.includes(t)) type = t; })
RECURSIVE LastIncluded(_, _, _)
LastIncluded(container, i, type) ==
    IF i > Len(validTypes) THEN type
    ELSE LastIncluded(container, i + 1,
                      IF validTypes[i] \in container THEN validTypes[i] ELSE type)

\* $('.info-title').each(...): the type after the containers from the i-th on
RECURSIVE CategoryType(_, _, _)
CategoryType(containers, i, type) ==
    IF i > Len(containers) THEN type
    ELSE LET listed == LastIncluded(containers[i], 1, type)
         IN  CategoryType(containers, i + 1,
                 IF listed = "" /\ containers[i] \cap {"pu-er", "Pu-Er", "Pu-er"} # {}
                 THEN "PuEr" ELSE listed)

\* for (const t of validTypes) if (bodyText.includes(t) && name.includes(t)) ...
RECURSIVE FirstIncluded(_, _, _)
FirstIncluded(body, name, i) ==
    IF i > Len(validTypes)
    THEN IF body \cap {"pu-er", "Pu-Er"} # {} /\ "pu" \in NameIncludes(name) THEN "PuEr" ELSE ""
    ELSE IF validTypes[i] \in body /\ validTypes[i] \in NameIncludes(name) THEN validTypes[i]
    ELSE FirstIncluded(body, name, i + 1)

\* 3. Type
typeOf(html) ==
    LET type == CategoryType(html.categories, 1, "")
    IN  IF type # "" THEN type ELSE FirstIncluded(html.body, html.name, 1)

\* the first sibling that is a table, from the i-th on
RECURSIVE FirstTable(_, _)
FirstTable(siblings, i) ==
    IF i > Len(siblings) THEN Paragraph
    ELSE IF siblings[i].table THEN siblings[i] ELSE FirstTable(siblings, i + 1)

\* text.includes('Recommend') && text.includes('Brew'), for the titles the pages carry
RecommendsBrewing(text) == text \in {"Recommend Brewing Method", "We Recommend To Brew"}

\* brewingTable: the table that follows the first such title that has one
RECURSIVE brewingTable(_, _)
brewingTable(titles, i) ==
    IF i > Len(titles) THEN Paragraph
    ELSE IF RecommendsBrewing(titles[i].text) /\ FirstTable(titles[i].next, 1).table
    THEN FirstTable(titles[i].next, 1)
    ELSE brewingTable(titles, i + 1)

\* tdText.toLowerCase().includes('steeps'), .indexOf('steeps:') and /s/i, on a token
IncludesSteeps(token) == token.k = "word" /\ token.w \in {"steeps", "steeps:", "Steeps:"}
IncludesSteepsColon(token) == token.k = "word" /\ token.w \in {"steeps:", "Steeps:"}
StartsWithS(token) == token.k = "word" /\ token.w \in {"s", "S", "sec", "steeps", "steeps:", "Steeps:"}

\* the least index of tdText at which test holds, 0 when there is none
IndexOf(tdText, test(_)) ==
    IF \E i \in DOMAIN tdText : test(tdText[i])
    THEN CHOOSE i \in DOMAIN tdText : test(tdText[i]) /\ \A j \in 1..(i - 1) : ~test(tdText[j])
    ELSE 0

\* a first line that is the whole of the text after 'steeps:'
firstLineWhole(tdText) ==
    SubSeq(tdText, IndexOf(tdText, IncludesSteepsColon) + 1, Len(tdText))

\* afterColon.split('\n')[0].trim()
firstLine(tdText) ==
    LET afterColon == SubSeq(tdText, IndexOf(tdText, IncludesSteepsColon) + 1, Len(tdText))
        break == IndexOf(afterColon, LAMBDA token : token = LineBreak)
    IN  IF break = 0 THEN afterColon ELSE SubSeq(afterColon, 1, break - 1)

\* firstLine.replace(/^[a-z]+\s*,\s*/i, '')
numberSequence(line) ==
    IF Len(line) >= 2 /\ line[1].k = "word" /\ ~IncludesSteepsColon(line[1]) /\ line[2] = Comma
    THEN SubSeq(line, 3, Len(line)) ELSE line

\* numberSequence.match(/(\d+)\s*s/gi) with the forEach that follows: the
\* numbers, from the i-th token on, that an s follows and that lie in 3..999
RECURSIVE matches(_, _)
matches(line, i) ==
    IF i >= Len(line) THEN <<>>
    ELSE (IF line[i].k = "number" /\ StartsWithS(line[i + 1])
             /\ line[i].n >= 3 /\ line[i].n <= 999
          THEN <<line[i].n>> ELSE <<>>) \o matches(line, i + 1)

\* steepTimes.sort((a, b) => a - b)
RECURSIVE Sorted(_)
Sorted(numbers) ==
    IF numbers = <<>> THEN <<>>
    ELSE LET least == CHOOSE i \in DOMAIN numbers : \A j \in DOMAIN numbers : numbers[i] <= numbers[j]
         IN  <<numbers[least]>> \o
             Sorted(SubSeq(numbers, 1, least - 1) \o SubSeq(numbers, least + 1, Len(numbers)))

\* 4. Steep Times
steepTimesOf(html) ==
    LET table == brewingTable(html.titles, 1)
        td == IndexOf(table.cells, LAMBDA tdText : \E i \in DOMAIN tdText : IncludesSteeps(tdText[i]))
    IN  IF ~table.table \/ td = 0 THEN <<>>
        ELSE IF IndexOf(table.cells[td], IncludesSteepsColon) = 0 THEN <<>>
        ELSE Sorted(matches(numberSequence(firstLine(table.cells[td])), 1))

\* caffeine.toLowerCase()
LowerWord(w) ==
    CASE w = "Less" -> "less"
      [] w = "About" -> "about"
      [] w = "High" -> "high"
      [] w = "LOW" -> "low"
      [] w = "Moderate" -> "moderate"
      [] OTHER -> w

toLowerCase(tokens) == [i \in DOMAIN tokens |-> [tokens[i] EXCEPT !.w = LowerWord(@)]]

\* text.includes(key): the keys a lower-case word has within it
KeysWithin(w) ==
    CASE w \in {"high", "higher"} -> {"high"}
      [] w \in {"low", "lower", "yellow"} -> {"low"}
      [] w = "medium" -> {"medium"}
      [] w \in {"moderate", "moderately"} -> {"moderate"}
      [] OTHER -> {}

includes(text, key) == \E i \in DOMAIN text : key \in KeysWithin(text[i].w)

\* the least of a set of positions, 0 if there is none
Leftmost(at) == IF at = {} THEN 0 ELSE CHOOSE i \in at : \A j \in at : i <= j

\* whether token i of text is the number a percent sign follows: (\d+)\s*%
NumberPercent(text, i) ==
    i + 1 <= Len(text) /\ text[i].k = "number" /\ text[i + 1] = Percent

\* text.match(/less\s+than\s+(\d+)\s*%/): where it matches, 0 if nowhere
lessMatch(text) ==
    Leftmost({i \in DOMAIN text :
        /\ text[i] = Word("less")
        /\ i + 1 <= Len(text) /\ text[i + 1] = Word("than")
        /\ NumberPercent(text, i + 2)})

\* text.match(/about\s+(\d+)\s*%|(\d+)\s*%/): where it matches, and which of
\* the two groups took part
percentMatch(text) ==
    LET about == Leftmost({i \in DOMAIN text : text[i] = Word("about") /\ NumberPercent(text, i + 1)})
        plain == Leftmost({i \in DOMAIN text : NumberPercent(text, i)})
    IN  IF about # 0 /\ about < plain THEN [at |-> about, group |-> about + 1]
        ELSE [at |-> plain, group |-> plain]

\* thresholds that put 'less than 10%' with 'about 10%'
caffeineLevelOfOneScale(caffeine) ==
    LET text == toLowerCase(caffeine.tokens)
    IN  IF percentMatch(text).at # 0
        THEN LET percentage == text[percentMatch(text).group].n
             IN  IF percentage < 10 THEN "Low" ELSE IF percentage < 25 THEN "Medium" ELSE "High"
        ELSE IF includes(text, "high") THEN "High"
        ELSE IF includes(text, "low") THEN "Low"
        ELSE IF includes(text, "medium") \/ includes(text, "moderate") THEN "Medium"
        ELSE "Low"

\* caffeineLevel, from the caffeine text
caffeineLevelOf(caffeine) ==
    LET text == toLowerCase(caffeine.tokens)
    IN  IF lessMatch(text) # 0
        THEN LET percentage == text[lessMatch(text) + 2].n
             IN  IF percentage <= 10 THEN "Low" ELSE IF percentage <= 25 THEN "Medium" ELSE "High"
        ELSE IF percentMatch(text).at # 0
        THEN LET percentage == text[percentMatch(text).group].n
             IN  IF percentage < 10 THEN "Low" ELSE IF percentage < 25 THEN "Medium" ELSE "High"
        ELSE IF includes(text, "high") THEN "High"
        ELSE IF includes(text, "low") THEN "Low"
        ELSE IF includes(text, "medium") \/ includes(text, "moderate") THEN "Medium"
        ELSE "Low"

\* normalizedResponse; the cells hold no temperature and no weight
normalizedResponse(html, url) ==
    [name |-> Str(html.name), type |-> Str(normalizeTeaType(typeOf(html))), image |-> Str(""),
     steepTimes |-> Arr([i \in DOMAIN steepTimesOf(html) |-> Num(steepTimesOf(html)[i])]),
     caffeine |-> Str(html.caffeine.text),
     caffeineLevel |-> Str(caffeineLevelOf(html.caffeine)),
     website |-> url, brewingTemperature |-> Str(""), teaWeight |-> Str("")]

importTea(url, upstream, f) ==
    LET h == "POST /api/teas/import"
        urlValidation == validateURLForSSRF(url)
    IN  IF ~urlValidation.valid THEN Out(Reply(400, urlValidation.error), f, h, 0, 0)
        ELSE [Out(IF ~upstream.ok THEN Reply(500, "Failed to scrape URL")
                  ELSE IF upstream.data.name \in {"", "Error"}
                  THEN Reply(400, "Could not extract tea information. Please try entering it manually.")
                  ELSE WithTea(Reply(200, ""), normalizedResponse(upstream.data, url)),
                  f, h, 0, 0)
                EXCEPT !.fetch = {url.v}]

-----------------------------------------------------------------------------
(* The server: every request under /api passes requireAuth, but the login *)

Request(route, auth, id, body, url, upstream) ==
    [route |-> route, auth |-> auth, id |-> id, body |-> body, url |-> url,
     upstream |-> upstream]

\* the route table, in the order the routes are registered after requireAuth
Handle(r, f, now) ==
    CASE r.route = "POST /api/teas/import" -> importTea(r.url, r.upstream, f)
      [] r.route = "GET /api/teas" -> getTeas(f)
      [] r.route = "POST /api/teas" -> postTea(r.body, f, now)
      [] r.route = "GET /api/teas/export" -> exportTeas(f)
      [] r.route = "DELETE /api/teas/:id" -> deleteTea(r.id, f)
      [] r.route = "PATCH /api/test-patch" -> testPatch(f)
      [] r.route = "PATCH /api/teas/:id" -> patchTea(r.id, r.body, f)
      [] r.route = "PUT /api/teas/:id/lastConsumed" -> consumeTea(r.id, f, now)
      [] OTHER -> noRoute(f)

\* app.use('/api', requireAuth) followed by the routes
Dispatch(r, f, now) ==
    LET gate == requireAuth(r.auth, now)
    IN  IF gate.error # "next" THEN Out(gate, f, "none", 0, 0)
        ELSE Handle(r, f, now)

\* the run of successful consumption requests on one tea that r extends
NextStreak(r, response) ==
    IF r.route = "PUT /api/teas/:id/lastConsumed" /\ response.status = 200
    THEN IF streak >= 1 /\ req.id = r.id THEN 2 ELSE 1
    ELSE 0

\* the server answers request r
Answer(r) ==
    \E out \in {Dispatch(r, file, clock)} :
        /\ process = "listening"
        /\ req' = r
        /\ pre' = file
        /\ resp' = out.resp
        /\ file' = out.file
        /\ io' = [at |-> clock, handler |-> out.handler, reads |-> out.reads,
                  writes |-> out.writes, fetch |-> out.fetch]
        /\ streak' = NextStreak(r, out.resp)
        /\ UNCHANGED <<clock, issued, env, process, puppeteerVars, scriptVars>>

\* a request of any client
Serve(r) == Answer(r) /\ UNCHANGED <<loopVars, clientVars>>

\* POST /api/auth/login, registered before requireAuth
AnswerLogin(body) ==
    LET response == login(body.obj, clock)
        grant == {[token |-> t, at |-> clock] : t \in response.token}
    IN  /\ process = "listening"
        /\ Cardinality(issued \cup grant) <= MaxTokens
        /\ req' = Request("POST /api/auth/login", NoHeader, "", body, Undef, NoPage)
        /\ pre' = file
        /\ resp' = response
        /\ issued' = issued \cup grant
        /\ io' = [at |-> clock, handler |-> "login", reads |-> 0, writes |-> 0, fetch |-> {}]
        /\ streak' = 0
        /\ UNCHANGED <<clock, file, env, process, puppeteerVars, scriptVars, loopVars>>

\* a login request of any client
Login(body) == AnswerLogin(body) /\ UNCHANGED clientVars

ImportTea(h, url, upstream) ==
    Serve(Request("POST /api/teas/import", h, "", Body([url |-> url]), url, upstream))

GetTeas(h) == Serve(Request("GET /api/teas", h, "", NoBody, Undef, NoPage))

PostTea(h, body) ==
    /\ Len(file.data) < MaxTeas
    /\ Serve(Request("POST /api/teas", h, "", body, Undef, NoPage))

ExportTeas(h) == Serve(Request("GET /api/teas/export", h, "", NoBody, Undef, NoPage))

DeleteTea(h, id) == Serve(Request("DELETE /api/teas/:id", h, id, NoBody, Undef, NoPage))

TestPatch(h) == Serve(Request("PATCH /api/test-patch", h, "", NoBody, Undef, NoPage))

PatchTea(h, id, body) == Serve(Request("PATCH /api/teas/:id", h, id, body, Undef, NoPage))

ConsumeTea(h, id) ==
    /\ \A i \in 1..Len(file.data) :
            OrZero(Get(file.data[i], "timesConsumed")) < MaxConsumed
    /\ Serve(Request("PUT /api/teas/:id/lastConsumed", h, id, NoBody, Undef, NoPage))

Unmatched(h) == Serve(Request("GET /api/unknown", h, "", NoBody, Undef, NoPage))

\* the callback of app.listen: the configuration is validated, then the
\* teas are read once
Listen ==
    LET verdict == validateAuthConfig(env)
    IN  /\ process = "starting"
        /\ process' = IF verdict = "exit(1)" THEN "exited" ELSE "listening"
        /\ io' = [io EXCEPT !.handler = "listen", !.reads = IF verdict = "exit(1)" THEN 0 ELSE 1]
        /\ UNCHANGED <<clock, issued, file, pre, req, resp, streak, env, puppeteerVars, scriptVars, loopVars, clientVars>>

-----------------------------------------------------------------------------
(* The event loop.  Node runs one callback at a time: a request that has   *)
(* arrived waits for its turn, its handler then runs without interruption  *)
(* up to its first await, and what follows the await runs in a later turn. *)

MaxRequests == 3    \* requests that arrive, in all

NoOut == Out(Reply(0, ""), NoFile, "none", 0, 0)

LoopInit == running = {} /\ served = [base |-> file, done |-> <<>>]

\* every handler gives the turn back between its read and its write
awaitsAlways(route) == TRUE

\* whether the handler of a route is an async function that awaits: the
\* import handler awaits the fetch, every other one is synchronous
awaits(route) == route = "POST /api/teas/import"

\* a request arrives while others wait or are served
Arrive(r) ==
    /\ process = "listening"
    /\ Cardinality(running) + Len(served.done) < MaxRequests
    /\ running' = running \cup
            {[n |-> Cardinality(running) + Len(served.done) + 1, r |-> r, at |-> "queued",
              now |-> 0, out |-> NoOut]}
    /\ UNCHANGED <<clock, issued, file, pre, req, resp, io, streak, env, process, puppeteerVars,
                   scriptVars, served, clientVars>>

\* the entry served gets when the handler of q is through
Done(q, now, status) ==
    [r |-> q.r, now |-> now, status |-> status, beside |-> Cardinality(running) - 1]

\* the turn of a waiting request: requireAuth and the handler run; a
\* synchronous handler is through when the turn ends, an async one waits for
\* what it awaits (one that returned before its await is taken to answer in
\* a later turn too: it wrote nothing, and its response is the same)
Run(q) ==
    /\ q \in running /\ q.at = "queued"
    /\ IF awaits(q.r.route)
       THEN /\ process = "listening"
            /\ running' = (running \ {q}) \cup
                    {[q EXCEPT !.at = "awaiting", !.now = clock,
                               !.out = Dispatch(q.r, file, clock)]}
            /\ UNCHANGED <<clock, issued, file, pre, req, resp, io, streak, env, process,
                           puppeteerVars, scriptVars, served>>
       ELSE /\ Answer(q.r)
            /\ running' = running \ {q}
            /\ served' = [served EXCEPT !.done = Append(@, Done(q, clock, resp'.status))]
    /\ UNCHANGED clientVars

\* what a handler awaited has settled: the rest of it runs, with what it
\* had computed before the await
Resume(q) ==
    /\ q \in running /\ q.at = "awaiting"
    /\ req' = q.r
    /\ pre' = file
    /\ resp' = q.out.resp
    /\ file' = IF q.out.writes > 0 THEN q.out.file ELSE file
    /\ io' = [at |-> q.now, handler |-> q.out.handler, reads |-> q.out.reads,
              writes |-> q.out.writes, fetch |-> q.out.fetch]
    /\ streak' = NextStreak(q.r, q.out.resp)
    /\ running' = running \ {q}
    /\ served' = [served EXCEPT !.done = Append(@, Done(q, q.now, q.out.resp.status))]
    /\ UNCHANGED <<clock, issued, env, process, puppeteerVars, scriptVars, clientVars>>

\* time passes: the clock is read again at a later moment
ClockReadings ==
    (0..MaxSteps) \cup {TOKEN_EXPIRY * TicksPerSecond + k : k \in 0..MaxSteps}

Tick ==
    /\ \E t \in ClockReadings : t > clock /\ clock' = t
    /\ UNCHANGED <<issued, file, pre, req, resp, io, streak, env, process, puppeteerVars, scriptVars, loopVars, clientVars>>

TickOnce ==
    /\ clock < MaxTicks
    /\ clock' = clock + 1
    /\ UNCHANGED <<issued, file, pre, req, resp, io, streak, env, process, puppeteerVars, scriptVars, loopVars, clientVars>>

-----------------------------------------------------------------------------
(* The Puppeteer server (tea-app/server/index.ts): the browser it scrapes  *)
(* with.  A call of getBrowser runs up to its await in one step and from   *)
(* the await to its return in another.                                     *)

MaxLaunches == 3   \* browsers puppeteer.launch is asked for at most
MaxCalls == 3      \* calls of getBrowser at most: the preload and the import requests

\* no browser yet, and no call
PuppeteerInit ==
    /\ browserInstance = 0
    /\ browsers = <<>>
    /\ getBrowserCalls = <<>>

\* getBrowser up to its await: without an instance puppeteer.launch is
\* called and the caller waits for it, otherwise the instance is returned
getBrowser(by) ==
    /\ Len(getBrowserCalls) < MaxCalls
    /\ IF browserInstance = 0
       THEN /\ Len(browsers) < MaxLaunches
            /\ browsers' = Append(browsers, "launching")
            /\ getBrowserCalls' = Append(getBrowserCalls,
                    [by |-> by, at |-> "await", launch |-> Len(browsers) + 1, got |-> 0])
            /\ UNCHANGED browserInstance
       ELSE /\ getBrowserCalls' = Append(getBrowserCalls,
                    [by |-> by, at |-> "returned", launch |-> 0, got |-> browserInstance])
            /\ UNCHANGED <<browserInstance, browsers>>

\* the callback of app.listen pre-loads the browser
Preload ==
    /\ process = "starting"
    /\ process' = "listening"
    /\ getBrowser("preload")
    /\ UNCHANGED <<clock, issued, file, pre, req, resp, io, streak, env, scriptVars, loopVars, clientVars>>

\* an import request whose URL passed validateURLForSSRF asks for the browser
ImportGetBrowser ==
    /\ process = "listening"
    /\ getBrowser("import")
    /\ UNCHANGED <<clock, issued, file, pre, req, resp, io, streak, env, process, scriptVars, loopVars, clientVars>>

\* puppeteer.launch resolves for call i: the browser is assigned, the
\* 'disconnected' handler is registered and browserInstance is returned
LaunchResolves(i) ==
    /\ getBrowserCalls[i].at = "await"
    /\ browserInstance' = getBrowserCalls[i].launch
    /\ browsers' = [browsers EXCEPT ![getBrowserCalls[i].launch] = "connected"]
    /\ getBrowserCalls' = [getBrowserCalls EXCEPT ![i].at = "returned",
                                                  ![i].got = getBrowserCalls[i].launch]
    /\ UNCHANGED <<clock, issued, file, pre, req, resp, io, streak, env, process, scriptVars, loopVars, clientVars>>

\* puppeteer.launch rejects for call i: getBrowser throws
LaunchRejects(i) ==
    /\ getBrowserCalls[i].at = "await"
    /\ browsers' = [browsers EXCEPT ![getBrowserCalls[i].launch] = "failed"]
    /\ getBrowserCalls' = [getBrowserCalls EXCEPT ![i].at = "threw"]
    /\ UNCHANGED <<browserInstance, clock, issued, file, pre, req, resp, io, streak, env,
                   process, scriptVars, loopVars, clientVars>>

\* browser b disconnects: its handler sets browserInstance to null
Disconnected(b) ==
    /\ browsers[b] = "connected"
    /\ browsers' = [browsers EXCEPT ![b] = "disconnected"]
    /\ browserInstance' = 0
    /\ UNCHANGED <<getBrowserCalls, clock, issued, file, pre, req, resp, io, streak, env,
                   process, scriptVars, loopVars, clientVars>>

-----------------------------------------------------------------------------
(* The service scripts (tea-app/.scripts): shutdown.sh runs one command    *)
(* per step, and a service process may exit between any two of them.       *)

GraceSeconds == 5   \* for i in {1..5}

\* the services in the order shutdown.sh stops them
Services == <<"frontend", "backend">>
ServiceNames == {Services[k] : k \in 1..Len(Services)}

\* what the scripts leave alone
besidesScripts ==
    <<clock, issued, file, pre, req, resp, io, streak, env, process, puppeteerVars, loopVars,
      clientVars>>

\* startup.sh has run: both services run and their PID files are written
ScriptInit ==
    /\ alive = ServiceNames
    /\ pidFiles = ServiceNames
    /\ pidDir = TRUE
    /\ script = [at |-> "idle", service |-> 0, i |-> 0, had |-> {}, signals |-> <<>>]

\* where the script goes when stop_service returns for service k
Returned(k) ==
    IF k < Len(Services)
    THEN [script EXCEPT !.at = "-f", !.service = k + 1, !.i = 0]
    ELSE [script EXCEPT !.at = "ports", !.service = 0, !.i = 0]

\* rm "$pid_file"
Rm(k) == pidFiles \ {Services[k]}

\* shutdown.sh is started: without the PID directory it exits at once
RunShutdown ==
    /\ script.at = "idle"
    /\ script' = IF pidDir
                 THEN [at |-> "-f", service |-> 1, i |-> 0, had |-> pidFiles, signals |-> <<>>]
                 ELSE [at |-> "done", service |-> 0, i |-> 0, had |-> {}, signals |-> <<>>]
    /\ UNCHANGED <<alive, pidFiles, pidDir>>
    /\ UNCHANGED besidesScripts

\* stop_service: if [ -f "$pid_file" ]
TestPidFile ==
    /\ script.at = "-f"
    /\ script' = IF Services[script.service] \in pidFiles
                 THEN [script EXCEPT !.at = "ps"]
                 ELSE Returned(script.service)
    /\ UNCHANGED <<alive, pidFiles, pidDir>>
    /\ UNCHANGED besidesScripts

\* stop_service: if ps -p $PID, else the PID file is cleaned up
TestProcess ==
    /\ script.at = "ps"
    /\ IF Services[script.service] \in alive
       THEN script' = [script EXCEPT !.at = "kill"] /\ UNCHANGED pidFiles
       ELSE script' = Returned(script.service) /\ pidFiles' = Rm(script.service)
    /\ UNCHANGED <<alive, pidDir>>
    /\ UNCHANGED besidesScripts

\* stop_service: kill $PID
Kill ==
    /\ script.at = "kill"
    /\ script' = [script EXCEPT !.at = "wait", !.i = 1,
                                !.signals = Append(@, <<"TERM", Services[script.service]>>)]
    /\ UNCHANGED <<alive, pidFiles, pidDir>>
    /\ UNCHANGED besidesScripts

\* stop_service: one round of the loop, which ends with sleep 1
Wait ==
    /\ script.at = "wait"
    /\ IF Services[script.service] \notin alive
       THEN script' = Returned(script.service) /\ pidFiles' = Rm(script.service)
       ELSE /\ script' = IF script.i < GraceSeconds
                         THEN [script EXCEPT !.i = @ + 1]
                         ELSE [script EXCEPT !.at = "force"]
            /\ UNCHANGED pidFiles
    /\ UNCHANGED <<alive, pidDir>>
    /\ UNCHANGED besidesScripts

\* stop_service after the loop: kill -9 and rm if the process still runs
Force ==
    /\ script.at = "force"
    /\ script' = [Returned(script.service) EXCEPT
                    !.signals = IF Services[script.service] \in alive
                                THEN Append(@, <<"KILL", Services[script.service]>>) ELSE @]
    /\ IF Services[script.service] \in alive
       THEN alive' = alive \ {Services[script.service]} /\ pidFiles' = Rm(script.service)
       ELSE UNCHANGED <<alive, pidFiles>>
    /\ UNCHANGED pidDir
    /\ UNCHANGED besidesScripts

\* whatever still listens on the two ports is killed
Ports ==
    /\ script.at = "ports"
    /\ script' = [script EXCEPT !.at = "rmdir"]
    /\ alive' = {}
    /\ UNCHANGED <<pidFiles, pidDir>>
    /\ UNCHANGED besidesScripts

\* the PID directory is removed if it is empty
Rmdir ==
    /\ script.at = "rmdir"
    /\ script' = [script EXCEPT !.at = "done"]
    /\ pidDir' = (pidDir /\ pidFiles # {})
    /\ UNCHANGED <<alive, pidFiles>>
    /\ UNCHANGED besidesScripts

\* a service process exits, of itself or on a signal
ProcessExits(s) ==
    /\ s \in alive
    /\ alive' = alive \ {s}
    /\ UNCHANGED <<pidFiles, pidDir, script>>
    /\ UNCHANGED besidesScripts

-----------------------------------------------------------------------------
(* TimerProvider: the countdown of the steep timer.  A render with its     *)
(* effects is one step; time passes in steps of 1/SubTicks second.         *)

SubTicks == 2     \* steps of time per second
MaxSeconds == 6   \* longest countdown a caller asks for

\* a callback that counts two seconds for one
DecrementByTwo(prev) == IF prev # Null /\ prev.v > 1 THEN Num(prev.v - 2) ELSE Num(0)

\* setTimeLeft((prev) => (prev !== null && prev > 0 ? prev - 1 : 0))
Decrement(prev) == IF prev # Null /\ prev.v > 0 THEN Num(prev.v - 1) ELSE Num(0)

\* a cleanup that leaves the interval alive
CleanupMissing(prev, ivs) == ivs

\* the cleanup of the effect that ran for timeLeft = prev: clearInterval on
\* the interval that run created, if it created one
Cleanup(prev, ivs) ==
    IF prev \notin {Null, Num(0)} /\ ivs # <<>> THEN SubSeq(ivs, 1, Len(ivs) - 1) ELSE ivs

\* useEffect(..., [timeLeft]) after a render in which timeLeft went from prev
\* to next: the live intervals and the sounds played
Effect(prev, next, ivs) ==
    IF next = prev THEN [intervals |-> ivs, sounds |-> <<>>]
    ELSE LET cleared == Cleanup(prev, ivs)
         IN  IF next = Null THEN [intervals |-> cleared, sounds |-> <<>>]
             ELSE IF next = Num(0) THEN [intervals |-> cleared, sounds |-> <<"end">>]
             ELSE [intervals |-> Append(cleared, 0),
                   sounds |-> IF next = Num(5) THEN <<"start">> ELSE <<>>]

\* how many of the sounds are the end sound
Ends(sounds) == Cardinality({i \in DOMAIN sounds : sounds[i] = "end"})

TimerInit ==
    /\ timeLeft = Null
    /\ activeTeaName = Null
    /\ activeSteepIndex = Null
    /\ intervals = <<>>
    /\ audio = [played |-> <<>>, ends |-> 0]
    /\ call = [op |-> "mount", seconds |-> 0, teaName |-> "", steepIndex |-> 0, was |-> Null]

\* startTimer(seconds, teaName, steepIndex)
StartTimer(seconds, teaName, steepIndex) ==
    LET effect == Effect(timeLeft, Num(seconds), intervals)
    IN  /\ timeLeft # Num(0)
        /\ timeLeft' = Num(seconds)
        /\ activeTeaName' = Str(teaName)
        /\ activeSteepIndex' = Num(steepIndex)
        /\ intervals' = effect.intervals
        /\ audio' = [played |-> <<"chime">> \o effect.sounds, ends |-> Ends(effect.sounds)]
        /\ call' = [op |-> "startTimer", seconds |-> seconds, teaName |-> teaName,
                    steepIndex |-> steepIndex, was |-> timeLeft]
        /\ UNCHANGED <<serverVars, authVars>>

\* stopTimer()
StopTimer ==
    LET effect == Effect(timeLeft, Null, intervals)
    IN  /\ timeLeft # Num(0)
        /\ timeLeft' = Null
        /\ activeTeaName' = Null
        /\ activeSteepIndex' = Null
        /\ intervals' = effect.intervals
        /\ audio' = [audio EXCEPT !.played = effect.sounds]
        /\ call' = [op |-> "stopTimer", seconds |-> 0, teaName |-> "", steepIndex |-> 0,
                    was |-> timeLeft]
        /\ UNCHANGED <<serverVars, authVars>>

\* the render that follows the effect for timeLeft = 0, which called
\* setActiveTeaName(null), setTimeLeft(null) and setActiveSteepIndex(null)
ClearExpired ==
    LET effect == Effect(timeLeft, Null, intervals)
    IN  /\ timeLeft = Num(0)
        /\ timeLeft' = Null
        /\ activeTeaName' = Null
        /\ activeSteepIndex' = Null
        /\ intervals' = effect.intervals
        /\ audio' = [audio EXCEPT !.played = effect.sounds]
        /\ call' = [op |-> "expire", seconds |-> 0, teaName |-> "", steepIndex |-> 0,
                    was |-> timeLeft]
        /\ UNCHANGED <<serverVars, authVars>>

\* timeLeft after the callbacks of n intervals ran
RECURSIVE Fired(_, _)
Fired(prev, n) == IF n = 0 THEN prev ELSE Fired(Decrement(prev), n - 1)

\* 1/SubTicks second passes: every live interval that has waited a second
\* runs its callback, and the render that follows runs the effect
Advance ==
    LET waited == [i \in DOMAIN intervals |-> intervals[i] + 1]
        due == {i \in DOMAIN waited : waited[i] = SubTicks}
        rearmed == [i \in DOMAIN waited |-> IF i \in due THEN 0 ELSE waited[i]]
        next == Fired(timeLeft, Cardinality(due))
        effect == Effect(timeLeft, next, rearmed)
    IN  /\ timeLeft # Num(0)
        /\ timeLeft' = next
        /\ intervals' = effect.intervals
        /\ audio' = [played |-> effect.sounds,
                     ends |-> IF audio.ends + Ends(effect.sounds) > 2 THEN 2
                              ELSE audio.ends + Ends(effect.sounds)]
        /\ call' = [op |-> IF due = {} THEN "wait" ELSE "tick", seconds |-> 0, teaName |-> "",
                    steepIndex |-> 0, was |-> timeLeft]
        /\ UNCHANGED <<activeTeaName, activeSteepIndex, serverVars, authVars>>

-----------------------------------------------------------------------------
(* The frontend: AuthContext.tsx and the axios client of api.ts.  A page   *)
(* load with the mount of AuthProvider is one step; a request is answered  *)
(* by the server when it is sent, and its response arrives in a later step *)

MaxInFlight == 1   \* responses the client waits for at most

\* isTokenExpired(token): payload.exp * 1000 < Date.now(), true when the
\* payload cannot be decoded
isTokenExpired(token, now) ==
    IF ~token.wellFormed THEN TRUE ELSE token.payload.exp * TicksPerSecond < now

\* the effect AuthProvider runs on mount: the state and the stored item after it
onMount(storage, now) ==
    IF storage # {} /\ \A token \in storage : ~isTokenExpired(token, now)
    THEN [isAuthenticated |-> TRUE, storage |-> storage]
    ELSE [isAuthenticated |-> FALSE, storage |-> {}]

\* the request interceptor: the Authorization header of a request
onRequest(storage) ==
    IF storage = {} THEN NoHeader ELSE Header("Bearer ", CHOOSE token \in storage : TRUE)

\* a response interceptor that leaves the token where it is
onRejectedKeeping(status, storage, current) ==
    [storage |-> storage, page |-> IF status = 401 THEN "reloading" ELSE current]

\* the response interceptor: the stored item and the page after a response
onRejected(status, storage, current) ==
    IF status = 401 THEN [storage |-> {}, page |-> "reloading"]
    ELSE [storage |-> storage, page |-> current]

BrowserInit ==
    /\ isAuthenticated = FALSE
    /\ page = "loading"
    /\ inflight = {}
    /\ removed = {}
    /\ event = [op |-> "open", had |-> {}]

\* what the app renders: the login page unless authenticated, else the dashboard
LoginPageShown == page = "ready" /\ ~isAuthenticated
DashboardShown == page = "ready" /\ isAuthenticated

\* the page loads, or loads again after reload(): AuthProvider mounts
Load ==
    LET mounted == onMount(localStorage, clock)
    IN  /\ page \in {"loading", "reloading"}
        /\ page' = "ready"
        /\ isAuthenticated' = mounted.isAuthenticated
        /\ localStorage' = mounted.storage
        /\ inflight' = {}
        /\ event' = [op |-> "load", had |-> localStorage]
        /\ UNCHANGED <<removed, serverVars, timerVars>>

\* the user opens the app again, or reloads the page
Reopen ==
    /\ page = "ready"
    /\ page' = "loading"
    /\ inflight' = {}
    /\ event' = [op |-> "open", had |-> localStorage]
    /\ UNCHANGED <<localStorage, isAuthenticated, removed, serverVars, timerVars>>

\* login(username, password) from the login page
ClientLogin(body) ==
    /\ LoginPageShown
    /\ AnswerLogin(body)
    /\ IF resp'.status = 200
       THEN localStorage' = resp'.token /\ isAuthenticated' = TRUE /\ removed' = {}
       ELSE UNCHANGED <<localStorage, isAuthenticated, removed>>
    /\ event' = [op |-> "login", had |-> localStorage]
    /\ UNCHANGED <<page, inflight, timerVars>>

\* logout()
Logout ==
    /\ DashboardShown
    /\ localStorage' = {}
    /\ isAuthenticated' = FALSE
    /\ event' = [op |-> "logout", had |-> localStorage]
    /\ UNCHANGED <<page, inflight, removed, serverVars, timerVars>>

\* a call of the dashboard through the axios client is sent
ApiSend(route, id) ==
    /\ DashboardShown
    /\ Cardinality(inflight) < MaxInFlight
    /\ Answer(Request(route, onRequest(localStorage), id, NoBody, Undef, NoPage))
    /\ UNCHANGED loopVars
    /\ inflight' = inflight \cup {resp'.status}
    /\ event' = [op |-> "send", had |-> localStorage]
    /\ UNCHANGED <<localStorage, isAuthenticated, page, removed, timerVars>>

\* its response arrives
ApiReceive ==
    \E status \in inflight :
        LET after == onRejected(status, localStorage, page)
        IN  /\ page = "ready"
            /\ inflight' = inflight \ {status}
            /\ localStorage' = after.storage
            /\ page' = after.page
            /\ removed' = IF status = 401 THEN removed \cup localStorage ELSE removed
            /\ event' = [op |-> IF status = 401 THEN "unauthorized" ELSE "response",
                          had |-> localStorage]
            /\ UNCHANGED <<isAuthenticated, serverVars, timerVars>>

-----------------------------------------------------------------------------
(* The requests the specifications draw from *)

\* a tea as an older version of the app stored it: no consumption fields
StoredTea(id, name) ==
    [id |-> Str(id), name |-> Str(name), type |-> Str("Green"), image |-> Str(""),
     steepTimes |-> Arr(<<Num(30), Num(45)>>), caffeine |-> Str(""),
     caffeineLevel |-> Str("Low"), website |-> Str(""), brewingTemperature |-> Str(""),
     teaWeight |-> Str("")]

Sencha == StoredTea("101", "Sencha")
Assam == Spread(StoredTea("102", "Assam"),
                [type |-> Str("Black"), timesConsumed |-> Num(1), lastConsumedDate |-> Num(0)])

InitialFiles == {NoFile, writeTeas(<<Sencha, Assam>>)}

\* what a client may send as username or password
Credentials ==
    {Undef, Str(""), Str(ADMIN_USERNAME), Str(AdminPassword), Num(7)}

\* the login requests a client may send
LoginBodies == {Body([username |-> u, password |-> p]) : u \in Credentials, p \in Credentials}

\* a token signed with a key that is not the server's
Forged ==
    LET payload == [username |-> ADMIN_USERNAME, iat |-> 0, exp |-> 3 * TOKEN_EXPIRY]
    IN  [wellFormed |-> TRUE, payload |-> payload, sig |-> Signature(payload, "guess")]

\* an issued token whose expiry was pushed back, the signature left as it was
Tampered(token) == [token EXCEPT !.payload.exp = @ + TOKEN_EXPIRY]

AuthHeaders ==
    {NoHeader, Header("Basic ", Garbage), Header("Bearer ", Garbage), Header("Bearer ", Forged)}
        \cup {Header("Bearer ", g.token) : g \in issued}
        \cup {Header("bearer ", g.token) : g \in issued}
        \cup {Header("Bearer ", Tampered(g.token)) : g \in issued}

\* the headers of a client that logged in, and of one that did not
SessionHeaders == {NoHeader} \cup {Header("Bearer ", g.token) : g \in issued}

NewTea == [name |-> Str("Gyokuro"), type |-> Str("green"), image |-> Str(""),
           steepTimes |-> Arr(<<Num(60)>>)]

\* the data file, no request yet, and the page about to load
InstalledWith(files) ==
    /\ clock = 0
    /\ issued = {}
    /\ file \in files
    /\ pre = file
    /\ req = Request("", NoHeader, "", NoBody, Undef, NoPage)
    /\ resp = Reply(0, "")
    /\ io = [at |-> 0, handler |-> "none", reads |-> 0, writes |-> 0, fetch |-> {}]
    /\ streak = 0
    /\ PuppeteerInit
    /\ ScriptInit
    /\ LoopInit
    /\ TimerInit
    /\ BrowserInit

Installed == InstalledWith(InitialFiles)

\* the server is configured and listens
Started == Installed /\ env = Configured /\ process = "listening"

Init == Started /\ localStorage = {}

-----------------------------------------------------------------------------
(* Authentication: logins and requests to every route, under any header,  *)
(* while the clock runs past the expiry of the tokens                     *)

NextAuth ==
    \/ Tick
    \/ \E body \in LoginBodies : Login(body)
    \/ \E h \in AuthHeaders : GetTeas(h)
    \/ \E h \in AuthHeaders : PostTea(h, Body(NewTea))
    \/ \E h \in AuthHeaders : ExportTeas(h)
    \/ \E h \in AuthHeaders : DeleteTea(h, "101")
    \/ \E h \in AuthHeaders : TestPatch(h)
    \/ \E h \in AuthHeaders : PatchTea(h, "999", Body([rating |-> Num(7)]))
    \/ \E h \in AuthHeaders : ConsumeTea(h, "999")
    \/ \E h \in AuthHeaders : ImportTea(h, Str(RelativeText), Fetched(BlankPage))
    \/ \E h \in AuthHeaders : Unmatched(h)

SpecAuth == Init /\ [][NextAuth]_vars

\* the request reached the routes behind app.use('/api', requireAuth)
Protected == req.route \notin {"", "POST /api/auth/login"}

\* the header is 'Bearer <token>' with a token signed by the server's secret
\* and not expired at the time now
CarriesValidToken(h, now) ==
    /\ h.present /\ h.prefix = "Bearer "
    /\ h.cred.wellFormed
    /\ h.cred.sig = Signature(h.cred.payload, JWT_SECRET)
    /\ ClockTimestamp(now) < h.cred.payload.exp

Missing(x) == x.t = "undefined" \/ x = Str("")

RightCredentials(body) ==
    /\ Get(body, "username") = Str(ADMIN_USERNAME)
    /\ Get(body, "password") = Str(AdminPassword)

\* C2: login returns a token only for the administrator's username with the
\* matching password; any other pair gets no token, with 400 when a field is
\* missing and 401 otherwise.
C2_LoginStatuses ==
    req.route = "POST /api/auth/login"
        => LET body == req.body.obj
           IN  /\ resp.token # {} => RightCredentials(body)
               /\ (Missing(Get(body, "username")) \/ Missing(Get(body, "password")))
                    => resp.status = 400
               /\ (/\ ~Missing(Get(body, "username")) /\ ~Missing(Get(body, "password"))
                   /\ ~RightCredentials(body))
                    => resp.status = 401

\* C3: a login that fails on the username is answered exactly as one that
\* fails on the password: the response to a wrong username is the response
\* any wrong password for the right username gets.
C3_SameFailure ==
    (/\ req.route = "POST /api/auth/login"
     /\ ~Missing(Get(req.body.obj, "username")) /\ ~Missing(Get(req.body.obj, "password"))
     /\ Get(req.body.obj, "username") # Str(ADMIN_USERNAME))
        => \A p \in Credentials :
                (~Missing(p) /\ p # Str(AdminPassword))
                    => login([username |-> Str(ADMIN_USERNAME), password |-> p], io.at) = resp

\* the last request carried, as a bearer token, the token of grant g
Presents(g) == Protected /\ req.auth = Header("Bearer ", g.token)

Accepted == io.handler # "none"

Lifetime == TOKEN_EXPIRY * TicksPerSecond

\* C4, as stated: a token issued at t is accepted before t + 30 days and
\* rejected with 'Token expired' after it.
C4_ThirtyDays ==
    \A g \in issued :
        Presents(g) =>
            /\ io.at < g.at + Lifetime => Accepted
            /\ io.at > g.at + Lifetime => resp = Reply(401, "Token expired")

\* C4, amended: a token issued at t is accepted up to one second before
\* t + 30 days, rejected with 'Token expired' from t + 30 days on, its
\* expiry is fixed when it is issued and a token whose expiry was changed
\* is rejected.
C4_TokenLifetime ==
    \A g \in issued :
        /\ g.token.payload.exp = ClockTimestamp(g.at) + TOKEN_EXPIRY
        /\ Presents(g) =>
            /\ io.at + TicksPerSecond <= g.at + Lifetime => Accepted
            /\ io.at >= g.at + Lifetime => resp = Reply(401, "Token expired")
        /\ (Protected /\ req.auth = Header("Bearer ", Tampered(g.token)))
                => resp = Reply(401, "Invalid token")

\* a token used within the last second of its thirty days, already refused
C4_Witness ==
    \E g \in issued :
        /\ Presents(g)
        /\ io.at < g.at + Lifetime
        /\ resp = Reply(401, "Token expired")

-----------------------------------------------------------------------------
(* The import endpoint under URLs of every syntax *)

Ipv6Hosts ==
    {Ipv6Host(<<0, 0, 0, 0, 0, 0, 0, 1>>),            \* [::1]
     Ipv6Host(<<0, 0, 0, 0, 0, 0, 0, 0>>),            \* [::]
     Ipv6Host(<<64512, 0, 0, 0, 0, 0, 0, 1>>),        \* [fc00::1]
     Ipv6Host(<<64786, 13398, 0, 0, 0, 0, 0, 1>>),    \* [fd12:3456::1]
     Ipv6Host(<<65152, 0, 0, 0, 0, 0, 0, 1>>),        \* [fe80::1]
     Ipv6Host(<<8193, 3512, 0, 0, 1, 0, 0, 1>>)}      \* [2001:db8::1:0:0:1]

Ipv4Hosts ==
    {Ipv4Host(<<127, 0, 0, 1>>), Ipv4Host(<<2130706433>>), Ipv4Host(<<127, 1>>),
     Ipv4Host(<<10, 0, 0, 1>>), Ipv4Host(<<10, 1>>), Ipv4Host(<<167772161>>),
     Ipv4Host(<<172, 16, 0, 1>>), Ipv4Host(<<172, 31, 255, 255>>),
     Ipv4Host(<<172, 1048577>>), Ipv4Host(<<172, 15, 0, 1>>), Ipv4Host(<<172, 32, 0, 1>>),
     Ipv4Host(<<192, 168, 1, 1>>), Ipv4Host(<<192, 168, 257>>), Ipv4Host(<<192, 167, 1, 1>>),
     Ipv4Host(<<169, 254, 169, 254>>), Ipv4Host(<<169, 253, 0, 1>>),
     Ipv4Host(<<8, 8, 8, 8>>), Ipv4Host(<<11, 0, 0, 1>>), Ipv4Host(<<128, 0, 0, 1>>),
     Ipv4Host(<<256, 0, 0, 1>>), Ipv4Host(<<1, 2, 3, 4, 5>>)}

NameHosts ==
    {NameHost(<<"l", "o", "c", "a", "l", "h", "o", "s", "t">>),
     NameHost(<<"L", "O", "C", "A", "L", "H", "O", "S", "T">>),
     NameHost(<<"L", "o", "c", "a", "l", "H", "o", "s", "t", ".", "L", "o", "c", "a", "l", "D", "o", "m", "a", "i", "n">>),
     NameHost(<<"e", "x", "a", "m", "p", "l", "e", ".", "c", "o", "m">>),
     NameHost(<<"f", "c", ".", "e", "x", "a", "m", "p", "l", "e", ".", "c", "o", "m">>),
     NameHost(<<"a", " ", "b", ".", "c", "o", "m">>)}

Hosts == Ipv6Hosts \cup Ipv4Hosts \cup NameHosts \cup {EmptyHost}

Schemes == {"http", "https", "HTTP", "ftp", "javascript"}

ImportUrls ==
    {Undef, Null, Num(7), Str(EmptyText), Str(SpacesText), Str(RelativeText)}
        \cup {Str(AbsoluteText(scheme, host)) : scheme \in Schemes, host \in Hosts}

AdminLogin == Body([username |-> Str(ADMIN_USERNAME), password |-> Str(AdminPassword)])

\* the fetch yields a page, or fails
Upstreams == {Fetched(BlankPage), NoPage}

NextImport ==
    \/ Login(AdminLogin)
    \/ \E h \in SessionHeaders, url \in ImportUrls, upstream \in Upstreams :
            ImportTea(h, url, upstream)

SpecImport == Init /\ [][NextImport]_vars

\* the import handler ran on the last request
Importing == req.route = "POST /api/teas/import" /\ io.handler = "POST /api/teas/import"

\* the address lies in 127/8, 10/8, 172.16/12, 192.168/16 or 169.254/16
PrivateIpv4(bytes) ==
    \/ bytes[1] = 127
    \/ bytes[1] = 10
    \/ bytes[1] = 172 /\ bytes[2] \div 16 = 1
    \/ bytes[1] = 192 /\ bytes[2] = 168
    \/ bytes[1] = 169 /\ bytes[2] = 254

\* the url is one the import endpoint has to refuse
RefusedUrl(url) ==
    \/ url.t # "string"
    \/ url.v.kind \in {"empty", "spaces"}
    \/ ~ParseURL(url.v).ok
    \/ LowerScheme(url.v.scheme) \notin {"http", "https"}
    \/ ParseURL(url.v).hostname \in {LocalhostChars, LocalhostLocaldomainChars}
    \/ url.v.host.form = "ipv4" /\ PrivateIpv4(Ipv4Bytes(url.v.host.parts))

\* C5: the import endpoint answers 400 and fetches nothing when the url is
\* empty, no string, no URL, not http(s), or names localhost or a private
\* IPv4 address; it fetches only a url that validateURLForSSRF found valid.
C5_GuardBeforeFetch ==
    Importing =>
        /\ RefusedUrl(req.url) => (resp.status = 400 /\ io.fetch = {})
        /\ io.fetch # {} => (validateURLForSSRF(req.url).valid /\ io.fetch = {req.url.v})

\* 127.0.0.1 written as one number, refused
C5_Witness ==
    /\ Importing
    /\ req.url = Str(AbsoluteText("http", Ipv4Host(<<2130706433>>)))
    /\ resp = Reply(400, "Cannot scrape private/local URLs")
    /\ io.fetch = {}

\* the address is the loopback ::1, the unspecified :: or lies in fc00::/7
LocalIpv6(pieces) ==
    \/ pieces = <<0, 0, 0, 0, 0, 0, 0, 1>>
    \/ pieces = <<0, 0, 0, 0, 0, 0, 0, 0>>
    \/ pieces[1] \div 512 = 126

\* C6: validateURLForSSRF rejects every URL whose host is the IPv6 loopback,
\* the unspecified address or a unique-local address (fc00::/7); the value it
\* tests is the hostname the URL parser produces for that URL.
C6_Ipv6Refused ==
    (/\ Importing
     /\ req.url.t = "string" /\ req.url.v.kind = "absolute"
     /\ req.url.v.host.form = "ipv6" /\ LocalIpv6(req.url.v.host.parts))
        => (/\ ~validateURLForSSRF(req.url).valid
            /\ resp.status = 400 /\ io.fetch = {})

-----------------------------------------------------------------------------
(* The collection under create, update, consume and delete requests *)

\* ids a client may name: a seeded tea, an id no tea has, and the ids
\* POST /api/teas hands out
TeaIds == {"101", "999"} \cup {ToString(t) : t \in 0..MaxTicks}

PostBodies == {NoBody, Body(NewTea)}

PatchBodies ==
    {NoBody, Body(EmptyObj), Body([rating |-> Num(7)]), Body([id |-> Str("102")])}

NextTeas ==
    \/ TickOnce
    \/ Login(AdminLogin)
    \/ \E h \in SessionHeaders, body \in PostBodies : PostTea(h, body)
    \/ \E h \in SessionHeaders, id \in TeaIds : DeleteTea(h, id)
    \/ \E h \in SessionHeaders, id \in TeaIds, body \in PatchBodies : PatchTea(h, id, body)
    \/ \E h \in SessionHeaders, id \in TeaIds : ConsumeTea(h, id)

SpecTeas == Init /\ [][NextTeas]_vars

\* the last request reached the handler of this route
Ran(route) == req.route = route /\ io.handler = route

\* where the collection f holds the tea the id names; 0 when it holds none
Place(f, id) ==
    LET hits == {i \in 1..Len(f.data) : f.data[i].id = Str(id)}
    IN  IF hits = {} THEN 0 ELSE CHOOSE i \in hits : \A j \in hits : i <= j

\* the stored count of a tea, a missing value taken as 0
Count(tea) == IF "timesConsumed" \in DOMAIN tea THEN tea.timesConsumed.v ELSE 0

\* C7: a consumption request for a stored tea adds exactly 1 to the tea's
\* stored timesConsumed (a missing value counting as 0), sets lastConsumedDate
\* to the time of the request, saves the collection and answers 200 with the
\* updated tea.
C7_ConsumeAddsOne ==
    (Ran("PUT /api/teas/:id/lastConsumed") /\ Place(pre, req.id) # 0) =>
        LET i == Place(pre, req.id)
        IN  /\ resp.status = 200
            /\ io.writes = 1
            /\ Len(file.data) = Len(pre.data)
            /\ file.data[i].id = Str(req.id)
            /\ file.data[i].timesConsumed = Num(Count(pre.data[i]) + 1)
            /\ file.data[i].lastConsumedDate = Num(io.at)
            /\ resp.tea = {file.data[i]}

\* a tea stored without a count was consumed for the first time
C7_Witness ==
    /\ Ran("PUT /api/teas/:id/lastConsumed")
    /\ Place(pre, req.id) # 0
    /\ "timesConsumed" \notin DOMAIN pre.data[Place(pre, req.id)]
    /\ resp.status = 200
    /\ file.data[Place(pre, req.id)].timesConsumed = Num(1)

\* the second of two successful consumption requests in a row on one tea
SecondInARow == streak = 1 /\ streak' = 2

C9_UniqueIds ==
    \A i, j \in 1..Len(file.data) : i # j => file.data[i].id # file.data[j].id

IdRoutes == {"DELETE /api/teas/:id", "PATCH /api/teas/:id", "PUT /api/teas/:id/lastConsumed"}

\* the last request named, on one of the routes with an id, a tea that the
\* collection did not hold
UnknownId == req.route \in IdRoutes /\ Ran(req.route) /\ Place(pre, req.id) = 0

\* C10 as stated: a delete, update or consumption request for an id that
\* matches no stored tea answers 404 'Tea not found' and writes nothing.
C10_UnknownId404 ==
    UnknownId => (resp = Reply(404, "Tea not found") /\ io.writes = 0 /\ file = pre)

\* the request carried a body with at least one field
HasFields == req.body.present /\ DOMAIN req.body.obj # {}

\* C10: for an id that matches no stored tea, a delete, a consumption request
\* and an update with at least one field answer 404 'Tea not found'; an update
\* with an empty or missing body answers 400; none of them writes the file.
C10_UnknownIdNoWrite ==
    UnknownId =>
        /\ io.writes = 0 /\ file = pre
        /\ IF req.route = "PATCH /api/teas/:id" /\ ~HasFields
           THEN resp = Reply(400, "Request body is required with at least one field to update")
           ELSE resp = Reply(404, "Tea not found")

\* an update with a field, for an id no tea has, was answered 404
C10_Witness ==
    /\ UnknownId
    /\ req.route = "PATCH /api/teas/:id" /\ HasFields
    /\ pre.exists /\ Len(pre.data) > 0
    /\ resp = Reply(404, "Tea not found")
    /\ file = pre

-----------------------------------------------------------------------------
(* Creation and update requests with bodies of every shape *)

\* what a client may add to, or put in the place of, the fields of NewTea
CreateFields ==
    {EmptyObj,
     [rating |-> Frac(9)],
     [rating |-> Num(0)], [rating |-> Num(11)], [rating |-> Frac(10)], [rating |-> Frac(0)],
     [rating |-> Str("7")],
     [timesConsumed |-> Num(3), lastConsumedDate |-> Num(5)],
     [timesConsumed |-> Num(-1)], [timesConsumed |-> Frac(1)],
     [lastConsumedDate |-> Str("today")],
     [type |-> Str(" GREEN ")], [type |-> Str("Pu-Erh")], [type |-> Str("Herbal")],
     [type |-> Num(5)], [type |-> Null],
     [name |-> Num(7)], [steepTimes |-> Arr(<<Str("30")>>)], [steepTimes |-> Str("30")],
     [caffeineLevel |-> Str("Extreme")],
     [colour |-> Str("red")]}

\* a creation request without the type field
Typeless == [name |-> Str("Gyokuro"), image |-> Str(""), steepTimes |-> Arr(<<Num(60)>>)]

CreateBodies == {NoBody, Body(Typeless)} \cup {Body(Spread(NewTea, fields)) : fields \in CreateFields}

UpdateBodies ==
    {NoBody,
     Body([rating |-> Frac(9)]),
     Body([rating |-> Num(11)]), Body([rating |-> Frac(10)]), Body([rating |-> Str("7")]),
     Body([timesConsumed |-> Num(-1)]), Body([timesConsumed |-> Frac(1)]),
     Body([type |-> Str("Black")]), Body([type |-> Str("green")]), Body([type |-> Num(5)]),
     Body([name |-> Num(1)]), Body([steepTimes |-> Arr(<<Num(30), Frac(45)>>)]),
     Body([colour |-> Str("red")])}

NextSchema ==
    \/ Login(AdminLogin)
    \/ \E h \in SessionHeaders, body \in CreateBodies : PostTea(h, body)
    \/ \E h \in SessionHeaders, id \in {"101", "999"}, body \in UpdateBodies : PatchTea(h, id, body)
    \/ \E h \in SessionHeaders : DeleteTea(h, "102")

SpecSchema == Init /\ [][NextSchema]_vars

\* the data of a creation request fails validation: the type is no string, or
\* the body with its type normalized does not pass CreateTeaSchema
InvalidCreate(obj) ==
    LET type == Get(obj, "type")
    IN  \/ ~IsString(type)
        \/ ~CreateTeaSchemaOk(Spread(obj, [type |-> Str(normalizeTeaType(type.v))]))

\* the stored tea with the fields of an update request over it fails TeaSchema
InvalidUpdate(tea, obj) == ~TeaSchemaOk(Spread(TeaSchemaParse(tea), obj))

\* C11: a creation or update request whose (merged) data fails schema
\* validation is answered 400 and leaves teas.yaml unchanged.
C11_Invalid400 ==
    /\ (Ran("POST /api/teas") /\ req.body.present /\ InvalidCreate(req.body.obj))
            => (resp.status = 400 /\ io.writes = 0 /\ file = pre)
    /\ (/\ Ran("PATCH /api/teas/:id") /\ HasFields /\ Place(pre, req.id) # 0
        /\ InvalidUpdate(pre.data[Place(pre, req.id)], req.body.obj))
            => (resp.status = 400 /\ io.writes = 0 /\ file = pre)

\* the field of a creation request, or the default where the client sent none
SentOr(obj, key, default) == IF key \in DOMAIN obj THEN obj[key] ELSE default

-----------------------------------------------------------------------------
(* The steep timer: startTimer and stopTimer at any moment, while time     *)
(* passes                                                                  *)

Seconds == -1 .. MaxSeconds     \* the form keeps every integer that parseInt reads
TeaNames == {"Sencha", "Assam"}
SteepIndexes == {0, 1}

NextTimer ==
    \/ \E seconds \in Seconds, teaName \in TeaNames, steepIndex \in SteepIndexes :
          StartTimer(seconds, teaName, steepIndex)
    \/ StopTimer
    \/ Advance
    \/ ClearExpired

SpecTimer == Init /\ [][NextTimer]_vars

\* the browser keeps running timers and finishes a render it has begun
SpecTimerLive == SpecTimer /\ WF_vars(Advance) /\ WF_vars(ClearExpired)

\* C13: startTimer(seconds, teaName, steepIndex) from any timer state makes
\* timeLeft = seconds, activeTeaName = teaName and activeSteepIndex =
\* steepIndex, and a timer that was running is replaced: the only countdown
\* left is the one that starts with the call, so its first tick is a full
\* second away.
C13_StartReplaces ==
    call.op = "startTimer" =>
        /\ timeLeft = Num(call.seconds)
        /\ activeTeaName = Str(call.teaName)
        /\ activeSteepIndex = Num(call.steepIndex)
        /\ intervals = IF call.seconds = 0 THEN <<>> ELSE <<0>>

\* C14: stopTimer in any timer state sets timeLeft, activeTeaName and
\* activeSteepIndex to null and leaves no interval alive, and while timeLeft
\* is null nothing but startTimer changes it: no tick does.
C14_StopHalts ==
    [][/\ call'.op = "stopTimer" =>
              /\ timeLeft' = Null
              /\ activeTeaName' = Null
              /\ activeSteepIndex' = Null
              /\ intervals' = <<>>
       /\ (timeLeft = Null /\ timeLeft' # Null) => call'.op = "startTimer"]_vars

\* stopTimer was called while a countdown was running
C14_Witness == call.op = "stopTimer" /\ call.was \notin {Null, Num(0)}

\* the three values of the timer are null
Cleared == timeLeft = Null /\ activeTeaName = Null /\ activeSteepIndex = Null

\* C15 as stated: while a timer runs every one-second tick lowers timeLeft by
\* exactly 1; at 0 the end sound is played exactly once and the three values
\* are cleared to null.
C15_TickMinusOne ==
    /\ [][call'.op = "tick" => timeLeft'.v = timeLeft.v - 1]_vars
    /\ [](timeLeft = Num(0) => Ends(audio.played) = 1 /\ audio.ends = 1)
    /\ (timeLeft = Num(0) ~> Cleared)

\* C15: every one-second tick lowers a positive timeLeft by exactly 1 and
\* sets a timeLeft that is not positive to 0; when timeLeft is 0 the end
\* sound has been played exactly once since the timer was started, the next
\* render clears the three values to null without another sound, and it
\* always comes.
C15_Countdown ==
    /\ [][call'.op = "tick" =>
              timeLeft' = IF timeLeft.v > 0 THEN Num(timeLeft.v - 1) ELSE Num(0)]_vars
    /\ [](timeLeft = Num(0) => Ends(audio.played) = 1 /\ audio.ends = 1)
    /\ [](audio.ends <= 1)
    /\ [][timeLeft = Num(0) => Cleared' /\ audio'.played = <<>>]_vars
    /\ (timeLeft = Num(0) ~> Cleared)

\* a countdown reached 0 by a tick, and the end sound was played
C15_Witness == timeLeft = Num(0) /\ call.op = "tick" /\ call.was = Num(1) /\ audio.played = <<"end">>

-----------------------------------------------------------------------------
(* The frontend session: the page loads with whatever an earlier visit     *)
(* left in localStorage, the user logs in and out, the dashboard calls the *)
(* API, and the clock runs past the expiry of the tokens                   *)

\* a token the server issued thirty days before it started
Stale == jwtSign(ADMIN_USERNAME, JWT_SECRET, TOKEN_EXPIRY, 0 - TOKEN_EXPIRY * TicksPerSecond)

StoredAtStart == {{}, {Garbage}, {Forged}, {Stale}}

InitClient == Started /\ localStorage \in StoredAtStart

ClientLogins == {AdminLogin, Body([username |-> Str(ADMIN_USERNAME), password |-> Str("guess")])}
ClientRoutes == {"GET /api/teas", "DELETE /api/teas/:id"}

NextClient ==
    \/ Tick
    \/ Load
    \/ Reopen
    \/ \E body \in ClientLogins : ClientLogin(body)
    \/ Logout
    \/ \E route \in ClientRoutes : ApiSend(route, "101")
    \/ ApiReceive

SpecClient == InitClient /\ [][NextClient]_vars

\* the browser completes a page load it has begun
SpecClientLive == SpecClient /\ WF_vars(Load)

Unexpired(token, now) == token.wellFormed /\ ClockTimestamp(now) < token.payload.exp

\* C17: on load AuthProvider sets isAuthenticated to true exactly when
\* localStorage holds a token that is not expired; a stored token that is
\* expired or cannot be decoded is removed and the user stays
\* unauthenticated; logout removes the token and sets isAuthenticated to
\* false.
C17_LoadChecksToken ==
    /\ [][page # "ready" /\ page' = "ready" =>
              LET valid == localStorage # {} /\ \A token \in localStorage : Unexpired(token, clock)
              IN  /\ isAuthenticated' <=> valid
                  /\ localStorage' = IF valid THEN localStorage ELSE {}]_vars
    /\ [][DashboardShown /\ event'.op = "logout" =>
              localStorage' = {} /\ ~isAuthenticated']_vars

-----------------------------------------------------------------------------
(* Startup: the server is started under every setting of the three auth    *)
(* variables, and serves logins once it listens                            *)

Settings == {"unset", "empty", "set"}
Environments == [DOMAIN Configured -> Settings]

InitStartup == Installed /\ localStorage = {} /\ env \in Environments /\ process = "starting"

NextStartup ==
    \/ Listen
    \/ \E body \in LoginBodies : Login(body)
    \/ \E h \in SessionHeaders : GetTeas(h)

SpecStartup == InitStartup /\ [][NextStartup]_vars

\* one of the three variables is missing
AnyMissing == \E name \in DOMAIN env : env[name] # "set"

\* C18: if any of ADMIN_USERNAME, ADMIN_PASSWORD_HASH or JWT_SECRET is
\* missing from the environment the server exits on startup: the listen
\* callback ends the process, and no request is ever served.
C18_ExitsWhenMissing ==
    AnyMissing =>
        /\ process \in {"starting", "exited"}
        /\ process = "exited" <=> io.handler = "listen"
        /\ req.route = "" /\ resp.status = 0 /\ issued = {}

\* the server was started with a variable missing, and has exited
C18_Witness == AnyMissing /\ process = "exited" /\ env.JWT_SECRET = "set"

-----------------------------------------------------------------------------
(* Scraping: a logged-in client imports from a public url, and the page    *)
(* that comes back varies in its titles, tables, cells, name, categories   *)
(* and caffeine text                                                       *)

ShopUrl == Str(AbsoluteText("https", NameHost(<<"e", "x", "a", "m", "p", "l", "e", ".", "c", "o", "m">>)))

\* the texts of table cells
NextCellTexts ==
    {<<Digits(7), Word("steeps:"), Word("rinse"), Comma, Digits(40), Word("s"), Comma,
       Digits(25), Word("s")>>,
     <<Digits(5), Word("steeps")>>,
     <<Digits(60), Word("s"), Comma, Digits(85), Word("g")>>}

CellTexts ==
    NextCellTexts \cup
    {<<Word("Steeps:"), Digits(2), Word("s"), Comma, Digits(3), Word("s"), Comma,
       Digits(999), Word("s"), Comma, Digits(1000), Word("s")>>,
     <<Word("steeps:"), LineBreak, Digits(90), Word("s")>>,
     <<Word("steeps:"), Digits(30), Word("sec"), Digits(8), Word("steeps")>>,
     <<Digits(7), Word("steeps:"), Digits(40), Word("s"), LineBreak, Digits(90), Word("s")>>,
     <<Digits(5), Word("steeps"), LineBreak, Word("steeps:"), Digits(20), Word("s")>>,
     <<Digits(15), Word("s"), Word("steeps:"), Digits(50), Word("S"), Digits(45)>>}

Tables ==
    {Table(<<a>>) : a \in CellTexts} \cup {Table(<<a, b>>) : a \in CellTexts, b \in NextCellTexts}

\* a table of the customer reviews
Reviews == Table(<<<<Word("steeps:"), Digits(10), Word("s"), Comma, Digits(15), Word("s")>>>>)

Title(text, next) == [text |-> text, next |-> next]

\* where the titles put a table
Layouts(table) ==
    {<<Title("Recommend Brewing Method", <<table>>)>>,
     <<Title("Recommend Brewing Method", <<Paragraph, table, Reviews>>)>>,
     <<Title("Customer Reviews", <<table>>)>>,
     <<Title("Recommend Brewing Method", <<Paragraph>>), Title("We Recommend To Brew", <<table>>)>>,
     <<Title("Brewing Guide", <<Reviews>>), Title("Recommend Brewing Method", <<table>>)>>}

CaffeineTexts ==
    {NoCaffeine,
     Caffeine("less than 10% of coffee",
              <<Word("less"), Word("than"), Digits(10), Percent, Word("of"), Word("coffee")>>),
     Caffeine("less than 30% of coffee",
              <<Word("less"), Word("than"), Digits(30), Percent, Word("of"), Word("coffee")>>),
     Caffeine("about 10% of coffee, low",
              <<Word("about"), Digits(10), Percent, Word("of"), Word("coffee"), Comma, Word("low")>>),
     Caffeine("high", <<Word("high")>>),
     Caffeine("moderate to low", <<Word("moderate"), Word("to"), Word("low")>>),
     Caffeine("content varies", <<Word("content"), Word("varies")>>)}

Names == {"", "Error", "Dragon Well Green Tea", "Ripened pu-er Cake", "Black Oolong",
          "Chrysanthemum Buds"}
Categories == {<<>>, <<{"Green", "Oolong"}>>, <<{"Pu-er"}>>, <<{}, {"White"}>>, <<{"Herbal"}>>}
Bodies == {{}, {"Green", "Black", "Oolong"}, {"pu-er"}}

Pages ==
    {[name |-> "Dragon Well Green Tea", categories |-> <<{"Green"}>>, body |-> {"Green"},
      caffeine |-> NoCaffeine, titles |-> titles] :
        titles \in {<<>>} \cup UNION {Layouts(table) : table \in Tables}}
    \cup
    {[name |-> name, categories |-> categories, body |-> body, caffeine |-> NoCaffeine,
      titles |-> <<>>] : name \in Names, categories \in Categories, body \in Bodies}
    \cup
    {[name |-> "Black Oolong", categories |-> <<>>, body |-> {"Green", "Black", "Oolong"},
      caffeine |-> caffeine, titles |-> <<>>] : caffeine \in CaffeineTexts}

NextScrape ==
    \/ Login(AdminLogin)
    \/ \E html \in Pages : \E g \in issued :
            ImportTea(Header("Bearer ", g.token), ShopUrl, Fetched(html))

SpecScrape == Init /\ [][NextScrape]_vars

\* the import answered 200 with a tea
Imported == Importing /\ resp.status = 200 /\ resp.tea # {}

\* the steep times of a response
TimesOf(tea) == [i \in DOMAIN tea.steepTimes.v |-> tea.steepTimes.v[i].v]

\* the numbers written '<n>s' on the first line after the first 'steeps:' of a cell
Written(tdText) ==
    {tdText[i].n : i \in {i \in 1..(Len(tdText) - 1) :
        /\ tdText[i].k = "number"
        /\ StartsWithS(tdText[i + 1])
        /\ \E m \in 1..(i - 1) :
              /\ IncludesSteepsColon(tdText[m])
              /\ \A j \in 1..(m - 1) : ~IncludesSteepsColon(tdText[j])
              /\ \A j \in m..i : tdText[j] # LineBreak}}

C20_ImportPassesSchema ==
    Imported =>
        \A tea \in resp.tea :
            /\ CreateTeaSchemaOk(tea)
            /\ IsString(tea.name) /\ tea.name.v # ""
            /\ IsEnum(tea.type, TEA_TYPES)
            /\ IsEnum(tea.caffeineLevel, CAFFEINE_LEVELS)
            /\ IsNumberArray(tea.steepTimes)

-----------------------------------------------------------------------------
(* The browser: the preload at startup and import requests call            *)
(* getBrowser, launches resolve or reject, and browsers disconnect         *)

InitBrowser == Installed /\ localStorage = {} /\ env = Configured /\ process = "starting"

Calls == 1..MaxCalls
Launches == 1..MaxLaunches

NextBrowser ==
    \/ Preload
    \/ ImportGetBrowser
    \/ \E i \in Calls : i <= Len(getBrowserCalls) /\ LaunchResolves(i)
    \/ \E i \in Calls : i <= Len(getBrowserCalls) /\ LaunchRejects(i)
    \/ \E b \in Launches : b <= Len(browsers) /\ Disconnected(b)

SpecBrowser == InitBrowser /\ [][NextBrowser]_vars

\* the browsers that are connected
Connected == {b \in 1..Len(browsers) : browsers[b] = "connected"}

\* C21: a single Puppeteer browser instance is reused for all scraping
\* requests: for any interleaving of getBrowser calls (the startup preload
\* and concurrent import requests) at most one browser is launched while
\* the current one stays connected, and all callers obtain that same
\* instance.
C21_SingleBrowser ==
    /\ Cardinality(Connected) <= 1
    /\ \A i, j \in 1..Len(getBrowserCalls) :
            /\ getBrowserCalls[i].got \in Connected
            /\ getBrowserCalls[j].got \in Connected
            => getBrowserCalls[i].got = getBrowserCalls[j].got

-----------------------------------------------------------------------------
(* Shutdown: shutdown.sh runs after startup.sh while the services exit at  *)
(* any moment                                                              *)

NextShutdown ==
    \/ RunShutdown
    \/ TestPidFile
    \/ TestProcess
    \/ Kill
    \/ Wait
    \/ Force
    \/ Ports
    \/ Rmdir
    \/ \E s \in ServiceNames : ProcessExits(s)

SpecShutdown == Init /\ [][NextShutdown]_vars

\* C22: after shutdown.sh has run, every service whose PID file existed is
\* no longer running and its PID file has been removed (SIGTERM first,
\* SIGKILL if the process is still alive after 5 seconds), whatever moment
\* the process exits during the wait.
C22_StoppedAndCleaned ==
    script.at = "done" => \A s \in script.had : s \notin alive /\ s \notin pidFiles

-----------------------------------------------------------------------------
(* Caffeine: a logged-in client imports pages whose caffeine text varies   *)
(* in its wording, its numbers and its keywords                            *)

\* what stands before the number
Openings ==
    {<<>>, <<Word("less"), Word("than")>>, <<Word("about")>>,
     <<Word("less"), Word("than"), Word("about")>>, <<Digits(30), Percent, Word("or"), Word("about")>>}

\* the numbers, one of them with decimals
Amounts == {<<Digits(n)>> : n \in {9, 10, 11, 25, 26}} \cup {<<Digits(12), Point, Digits(5)>>}

\* what follows
Closings ==
    {<<>>, <<Word("High")>>, <<Word("low"), Word("to"), Word("medium")>>,
     <<Word("moderately"), Word("higher")>>, <<Word("medium"), Word("yellow")>>,
     <<Word("Moderate")>>, <<Word("Less"), Word("than"), Digits(5), Percent>>}

\* texts with a percentage, with milligrams, and with neither
CaffeineWordings ==
    {opening \o amount \o <<Percent>> \o closing :
        opening \in Openings, amount \in Amounts, closing \in Closings}
    \cup {<<Word("about"), Digits(30), Word("mg")>> \o closing : closing \in Closings}
    \cup Closings

CaffeinePages ==
    {[name |-> "Black Oolong", categories |-> <<>>, body |-> {"Green", "Black", "Oolong"},
      caffeine |-> Caffeine("", tokens), titles |-> <<>>] : tokens \in CaffeineWordings}

NextCaffeine ==
    \/ Login(AdminLogin)
    \/ \E html \in CaffeinePages : \E g \in issued :
            ImportTea(Header("Bearer ", g.token), ShopUrl, Fetched(html))

SpecCaffeine == Init /\ [][NextCaffeine]_vars

\* the caffeine text of the page, in lower case
Lowered == toLowerCase(req.upstream.data.caffeine.tokens)

\* the numbers N of the places of a text that read 'less than N %', and of
\* those that read 'N %'
LessThans(text) ==
    {i \in 1..(Len(text) - 3) :
        /\ <<text[i].w, text[i + 1].w>> = <<"less", "than">>
        /\ text[i + 2].k = "number"
        /\ text[i + 3].k = "percent"}
Percents(text) == {i \in 1..(Len(text) - 1) : text[i].k = "number" /\ text[i + 1].k = "percent"}

\* whether a word of the text has the keyword in it
Mentions(text, keyword) == \E i \in DOMAIN text : keyword \in KeysWithin(text[i].w)

\* the level of a number under bounds that are or are not themselves Low and Medium
Level(n, inclusive) ==
    IF n < 10 \/ (inclusive /\ n = 10) THEN "Low"
    ELSE IF n < 25 \/ (inclusive /\ n = 25) THEN "Medium"
    ELSE "High"

-----------------------------------------------------------------------------
(* Frame: a logged-in client deletes, patches and consumes the teas of a   *)
(* collection of four, two of which share an id                            *)

\* a collection in which a PATCH gave the fourth tea the id of the first
FrameFiles ==
    {writeTeas(<<Sencha, Assam, Spread(StoredTea("103", "Keemun"), [rating |-> Num(7)]),
                 Spread(Assam, [id |-> Str("101"), name |-> Str("Bancha")])>>)}

InitFrame == InstalledWith(FrameFiles) /\ env = Configured /\ process = "listening"
                /\ localStorage = {}

FrameIds == {"101", "102", "103", "999"}
PatchedIds == {"101", "999"}
ConsumedIds == {"102", "999"}
FrameBodies == {Body([rating |-> Num(9)]), Body([id |-> Str("102")]), Body([rating |-> Num(11)])}

NextFrame ==
    \/ Login(AdminLogin)
    \/ \E h \in SessionHeaders, id \in FrameIds : DeleteTea(h, id)
    \/ \E h \in SessionHeaders, id \in PatchedIds, body \in FrameBodies : PatchTea(h, id, body)
    \/ \E h \in SessionHeaders, id \in ConsumedIds : ConsumeTea(h, id)

SpecFrame == InitFrame /\ [][NextFrame]_vars

\* the teas of the file before the request, as they read
Before == [i \in 1..Len(pre.data) |-> TeaSchemaParse(pre.data[i])]

-----------------------------------------------------------------------------
(* TimerProvider again: the three values of every render                   *)

\* C25: in every state of TimerProvider after an update has been applied,
\* timeLeft, activeTeaName and activeSteepIndex are either all null (idle) or
\* all non-null (running): no sequence of startTimer, stopTimer and ticks
\* leaves a tea name or steep index set while timeLeft is null, or the
\* reverse.
C25_AllOrNone ==
    \/ timeLeft = Null /\ activeTeaName = Null /\ activeSteepIndex = Null
    \/ timeLeft # Null /\ activeTeaName # Null /\ activeSteepIndex # Null

\* a running countdown was stopped before it ended: the three values are null
C25_Witness ==
    /\ call.op = "stopTimer" /\ call.was # Null
    /\ timeLeft = Null /\ activeTeaName = Null /\ activeSteepIndex = Null
    /\ audio.ends = 0

-----------------------------------------------------------------------------
(* Persistence: valid and invalid requests of the four kinds, from a file  *)
(* that is missing or valid                                                *)

NextPersist ==
    \/ NextSchema
    \/ \E h \in SessionHeaders, id \in {"101", "999"} : ConsumeTea(h, id)

SpecPersist == Init /\ [][NextPersist]_vars

\* C26: starting from a missing or schema-valid teas.yaml, after any
\* sequence of POST, PATCH, PUT lastConsumed and DELETE requests (valid or
\* invalid) the file content still validates as an array of TeaSchema
\* records, so readTeas never fails on data the API itself wrote.
C26_FileStaysValid ==
    /\ \A i \in 1..Len(file.data) : TeaSchemaOk(file.data[i])
    /\ readTeas(file).ok
    /\ resp.error \notin {"Failed to read tea collection", "Failed to read existing tea collection"}

\* the file was written by a POST after a PATCH, a PUT and a DELETE, and
\* reads as two teas
C26_Witness ==
    /\ Ran("POST /api/teas") /\ io.writes = 1
    /\ Len(readTeas(file).teas) = 2
    /\ \E i \in 1..Len(file.data) : /\ file.data[i].id = Str("101")
                                       /\ "rating" \in DOMAIN file.data[i]
                                       /\ file.data[i].timesConsumed = Num(1)
    /\ \A i \in 1..Len(file.data) : file.data[i].id # Str("102")

-----------------------------------------------------------------------------
(* Concurrency: requests on one tea, a new tea and an import arrive while  *)
(* others wait, and their handlers take their turns in any order           *)

\* what a client that holds header h sends
Together(h) ==
    {Request("PUT /api/teas/:id/lastConsumed", h, "101", NoBody, Undef, NoPage),
     Request("PATCH /api/teas/:id", h, "101", Body([rating |-> Num(7)]), Undef, NoPage),
     Request("DELETE /api/teas/:id", h, "101", NoBody, Undef, NoPage),
     Request("POST /api/teas", h, "", Body(NewTea), Undef, NoPage),
     Request("POST /api/teas/import", h, "", Body([url |-> ShopUrl]), ShopUrl,
             Fetched(BlankPage))}

\* the requests of the clients that logged in, and one of a client that did not
Arriving ==
    UNION {Together(Header("Bearer ", g.token)) : g \in issued}
        \cup {Request("PUT /api/teas/:id/lastConsumed", NoHeader, "101", NoBody, Undef, NoPage)}

NextConcurrent ==
    \/ Login(AdminLogin)
    \/ \E r \in Arriving : Arrive(r)
    \/ \E q \in running : Run(q)
    \/ \E q \in running : Resume(q)

SpecConcurrent == Init /\ [][NextConcurrent]_vars

\* the served requests that succeeded
Successful == {k \in 1..Len(served.done) : served.done[k].status \in 200..299}

\* the orders in which the requests of a set can be put
Orders(S) ==
    {o \in [1..Cardinality(S) -> S] : \A i, j \in 1..Cardinality(S) : i # j => o[i] # o[j]}

\* teas.yaml after the requests of an order were served one after another,
\* each at the time it was served
RECURSIVE Replay(_, _)
Replay(f, order) ==
    IF order = <<>> THEN f
    ELSE LET first == served.done[Head(order)]
         IN  Replay(Handle(first.r, f, first.now).file, Tail(order))

\* the successful consumption requests on a tea
Consumptions(id) ==
    {k \in Successful : /\ served.done[k].r.route = "PUT /api/teas/:id/lastConsumed"
                        /\ served.done[k].r.id = id}

\* the timesConsumed of a tea in a file; -1 when the file has no such tea
TimesConsumed(f, id) ==
    LET list == readTeas(f).teas
        i == FindIndex(list, id)
    IN  IF i = 0 THEN -1 ELSE OrZero(Get(list[i], "timesConsumed"))

\* C27: each mutating handler (POST, PATCH, PUT lastConsumed, DELETE) does
\* its read-modify-write of teas.yaml without yielding between the read and
\* the write, so for any interleaving of concurrent requests the file equals
\* the result of applying the successful requests in some serial order and
\* no update is lost: N concurrent consumption requests on one tea raise its
\* timesConsumed by N.
C27_Serializable ==
    /\ \E order \in Orders(Successful) : file = Replay(served.base, order)
    /\ \A q \in running : q.at = "awaiting" => q.out.writes = 0
    /\ TimesConsumed(file, "101") >= 0
            => TimesConsumed(file, "101")
                    = TimesConsumed(served.base, "101") + Cardinality(Consumptions("101"))

\* three consumption requests on one tea waited together, all three were
\* served, and the tea was consumed three times more
C27_Witness ==
    /\ running = {} /\ Len(served.done) = 3
    /\ Cardinality(Consumptions("101")) = 3
    /\ served.done[1].beside = 2
    /\ TimesConsumed(file, "101") = TimesConsumed(served.base, "101") + 3

====
